---------------------------- MODULE Spec2Model ----------------------------
(***************************************************************************)
(* Tea factory simulator: the stage sequencers tea_gui::TeaBatch           *)
(* (src/src/TeaBatch.cpp) and tea::Simulator (src/src/simulation/          *)
(* Simulator.h), with the stage rules and coefficient profiles they use.   *)
(*                                                                         *)
(* Numbers.  The program computes on IEEE doubles; the model computes on   *)
(* fixed-point integers, every operation rounding towards minus infinity:  *)
(*   moisture                 in millionths          (1.0    = 1000000)    *)
(*   temperature_c            in thousandths of a C  (25.0 C = 25000)      *)
(*   aroma, color, scores     in thousandths         (100.0  = 100000)     *)
(*   rate coefficients        in millionths          (0.08   = 80000)      *)
(* Whole seconds are integers.  A time delta handed to TeaBatch::update is *)
(* written as a number of ticks of 1/Sub second (tenths); the double it    *)
(* denotes, and the double pending_seconds_ that accumulates the deltas,   *)
(* are modelled bit for bit: a value is an integer part and 56 fraction    *)
(* bits in two limbs, and a sum is rounded to 53 significant bits, ties to *)
(* even, as the IEEE addition rounds it.                                   *)
(***************************************************************************)
EXTENDS Integers, Sequences, FiniteSets, TLC

(***************************************************************************)
(* Bounds of the model.                                                    *)
(***************************************************************************)
\* operations applied to the TeaBatch in one behaviour
MaxCalls == 3
\* largest stage duration of a tea::Simulator configuration
MaxDur == 4
\* largest dt_seconds of a tea::Simulator configuration
MaxDt == 5
\* step calls in a behaviour that also hands non-positive dt_seconds
MaxSimCalls == 3
\* update calls in a behaviour of sub-second deltas
MaxFracCalls == 10
\* operations applied to the tea_gui::Simulator in one behaviour
MaxGuiCalls == 6
\* largest batch count asked of the tea_gui::Simulator
MaxBatches == 2
\* calls made on a CsvWriter in one behaviour
MaxCsvCalls == 4
\* apply_step calls made on one leaf in one behaviour
MaxRuleCalls == 2

\* command-line arguments after the program name
MaxArgs == 3

\* ticks per second of a time delta: a delta is written in tenths
Sub == 2 * 5

(***************************************************************************)
(* Fixed-point helpers.                                                    *)
(***************************************************************************)
Min(a, b) == IF a <= b THEN a ELSE b

Max(a, b) == IF a >= b THEN a ELSE b

\* floor(x * r / 10^6), by partial products of three-digit halves so that no
\* intermediate value leaves the 32-bit range.  The operands are bound as
\* values (xv, rv), so each is evaluated once however deep the expression.
MulMicro(x, r) ==
  CHOOSE p \in
    { (xv \div 1000) * (rv \div 1000)
        + (((xv \div 1000) * (rv % 1000) + (xv % 1000) * (rv \div 1000)
             + (((xv % 1000) * (rv % 1000)) \div 1000)) \div 1000)
      : xv \in {x}, rv \in {r} } : TRUE

\* exp(y) for |y| <= 1/2, y and the result in millionths: the Taylor
\* polynomial of degree 8 in Horner form.
RECURSIVE ExpSeries(_, _)
ExpSeries(y, k) ==
  IF k > 8 THEN 1000000
  ELSE 1000000 + (MulMicro(y, ExpSeries(y, k + 1)) \div k)

\* std::exp on millionths: halve the argument until it is small, then square.
RECURSIVE Exp(_)
Exp(y) ==
  IF y > 500000 \/ y < -500000
  THEN LET h == Exp(y \div 2)
           r == Exp(y - (y \div 2))
       IN  MulMicro(h, r)
  ELSE ExpSeries(y, 1)

(***************************************************************************)
(* The double that holds a time: pending_seconds_ and the deltas added to  *)
(* it.  A value v >= 0 is [int, hi, lo] with v = int + hi/2^28 + lo/2^56   *)
(* and 0 <= hi, lo < 2^28.  Every double in [1/16, 2^24) lies on this      *)
(* grid, and so do the sums of such doubles below 1/16.                    *)
(***************************************************************************)
Limb == 2^28

Double(int, hi, lo) == [int |-> int, hi |-> hi, lo |-> lo]

Zero == Double(0, 0, 0)

\* the double nearest to f/10, the value of the literals 0.1 ... 0.9
\* (0.1 is 0x1.999999999999Ap-4, 0.5 is exact)
Tenth(f) ==
  CASE f = 0 -> Zero
    [] f = 1 -> Double(0, 26843545, 161061274)
    [] f = 2 -> Double(0, 53687091, 53687092)
    [] f = 3 -> Double(0, 80530636, 214748364)
    [] f = 4 -> Double(0, 107374182, 107374184)
    [] f = 5 -> Double(0, 134217728, 0)
    [] f = 6 -> Double(0, 161061273, 161061272)
    [] f = 7 -> Double(0, 187904819, 53687088)
    [] f = 8 -> Double(0, 214748364, 214748368)
    [] f = 9 -> Double(0, 241591910, 107374184)

\* the largest power of two that is at most n, n >= 1
RECURSIVE Pow2Floor(_)
Pow2Floor(n) == IF n <= 1 THEN 1 ELSE 2 * Pow2Floor(n \div 2)

\* the spacing of the doubles around x, in units of 2^-56: a double has 53
\* significant bits
Quantum(x) ==
  IF x.int = 0
  THEN IF x.hi >= 2^27 THEN 8
       ELSE IF x.hi >= 2^26 THEN 4
       ELSE IF x.hi >= 2^25 THEN 2 ELSE 1
  ELSE 16 * Pow2Floor(x.int)

\* x rounded to the nearest double, ties to the even significand
RoundDouble(x) ==
  LET q == Quantum(x)
      r == x.lo % q
      up == 2 * r > q \/ (2 * r = q /\ (x.lo \div q) % 2 = 1)
      lo == IF up THEN x.lo - r + q ELSE x.lo - r
      hi == x.hi + (lo \div Limb)
  IN  Double(x.int + (hi \div Limb), hi % Limb, lo % Limb)

\* a + b on doubles
AddDouble(a, b) ==
  LET lo == a.lo + b.lo
      hi == a.hi + b.hi + (lo \div Limb)
  IN  RoundDouble(Double(a.int + b.int + (hi \div Limb), hi % Limb, lo % Limb))

\* the double a delta of delta ticks denotes: whole seconds, or a
\* sub-second literal
DoubleOf(delta) ==
  IF delta % Sub = 0 THEN Double(delta \div Sub, 0, 0)
  ELSE AddDouble(Double(delta \div Sub, 0, 0), Tenth(delta % Sub))

\* mutant: the magnitude of the delta, so a negative delta advances time
MaxZero_abs(delta) == DoubleOf(IF delta < 0 THEN -delta ELSE delta)

\* std::max(0.0, delta_seconds)
MaxZero(delta) == IF delta <= 0 THEN Zero ELSE DoubleOf(delta)

(***************************************************************************)
(* domain/TeaLeaf.h                                                        *)
(***************************************************************************)
TeaLeaf == [moisture |-> 750000, temperature_c |-> 25000,
            aroma |-> 10000, color |-> 10000]

\* mutant: only the lower bound is applied
clamp_lower_only(v, min_v, max_v) == Max(min_v, v)

clamp(v, min_v, max_v) == Max(min_v, Min(v, max_v))

\* mutant: aroma is left as the rule computed it
normalize_aroma_unclamped(leaf) ==
  CHOOSE n \in
    { [l EXCEPT !.moisture = clamp(l.moisture, 0, 1000000),
                !.color = clamp(l.color, 0, 100000)]
      : l \in {leaf} } : TRUE

\* the leaf is bound as a value (l), so it is evaluated once
normalize(leaf) ==
  CHOOSE n \in
    { [l EXCEPT !.moisture = clamp(l.moisture, 0, 1000000),
                !.aroma = clamp(l.aroma, 0, 100000),
                !.color = clamp(l.color, 0, 100000)]
      : l \in {leaf} } : TRUE

(***************************************************************************)
(* domain/Model.h, domain/Model.cpp                                        *)
(***************************************************************************)
ModelType == {"DEFAULT", "GENTLE", "AGGRESSIVE"}

SteamingParams == [target_temp_c |-> 95000, heat_k |-> 80000,
                   moisture_gain_per_s |-> 800, aroma_gain_per_s |-> 1000000,
                   color_gain_per_s |-> 200000]

RollingParams == [target_temp_c |-> 70000, cool_k |-> 50000,
                  moisture_loss_k |-> 1500, aroma_gain_per_s |-> 600000,
                  color_gain_per_s |-> 300000]

DryingParams == [target_temp_c |-> 60000, temp_k |-> 70000, dry_k |-> 50000,
                 aroma_recover_per_s |-> 200000, overheat_c |-> 70000,
                 aroma_damage_k |-> 20000, color_gain_per_s |-> 150000]

ModelParams == [steaming |-> SteamingParams, rolling |-> RollingParams,
                drying |-> DryingParams]

\* mutant: the coefficient is left at its base value
Scale_identity(c, num) == c

\* mutant: every profile is scaled down
Scale_down(c, num) == (c * 75) \div 100

\* c *= k for k = num/100
Scale(c, num) == (c * num) \div 100

make_model(type) ==
  IF type = "DEFAULT" THEN ModelParams
  ELSE
    LET k == IF type = "GENTLE" THEN 75
             ELSE IF type = "AGGRESSIVE" THEN 125 ELSE 100
        p == ModelParams
    IN  [steaming |->
           [p.steaming EXCEPT
              !.heat_k = Scale(@, k),
              !.moisture_gain_per_s = Scale(@, k),
              !.aroma_gain_per_s = Scale(@, k),
              !.color_gain_per_s = Scale(@, k)],
         rolling |->
           [p.rolling EXCEPT
              !.cool_k = Scale(@, k),
              !.moisture_loss_k = Scale(@, k),
              !.aroma_gain_per_s = Scale(@, k),
              !.color_gain_per_s = Scale(@, k)],
         drying |->
           [p.drying EXCEPT
              !.temp_k = Scale(@, k),
              !.dry_k = Scale(@, k),
              !.aroma_recover_per_s = Scale(@, k),
              !.aroma_damage_k = Scale(@, k),
              !.color_gain_per_s = Scale(@, k)]]

(***************************************************************************)
(* The stage rules: IProcess::apply_step of the three processes.           *)
(***************************************************************************)
\* rate * dt * (1 - x/100): the saturating gain of aroma and color
Saturating(x, rate, dt) == MulMicro(1000000 - x * 10, rate * dt) \div 1000

SteamingProcess_apply_step(params, leaf, dt_seconds) ==
  LET dt == dt_seconds
  IN  normalize(
        [moisture |-> leaf.moisture + params.moisture_gain_per_s * dt,
         temperature_c |->
           leaf.temperature_c
             + MulMicro(params.target_temp_c - leaf.temperature_c,
                        params.heat_k * dt),
         aroma |-> leaf.aroma
                     + Saturating(leaf.aroma, params.aroma_gain_per_s, dt),
         color |-> leaf.color
                     + Saturating(leaf.color, params.color_gain_per_s, dt)])

RollingProcess_apply_step(params, leaf, dt_seconds) ==
  LET dt == dt_seconds
  IN  normalize(
        [moisture |->
           leaf.moisture
             - MulMicro(400000 + ((6 * leaf.moisture) \div 10),
                        params.moisture_loss_k * dt),
         temperature_c |->
           leaf.temperature_c
             + MulMicro(params.target_temp_c - leaf.temperature_c,
                        params.cool_k * dt),
         aroma |-> leaf.aroma
                     + Saturating(leaf.aroma, params.aroma_gain_per_s, dt),
         color |-> leaf.color
                     + Saturating(leaf.color, params.color_gain_per_s, dt)])

DryingProcess_apply_step(params, leaf, dt_seconds) ==
  LET dt == dt_seconds
      temp == leaf.temperature_c
                + MulMicro(params.target_temp_c - leaf.temperature_c,
                           params.temp_k * dt)
  IN  normalize(
        [moisture |-> MulMicro(leaf.moisture, Exp(-(params.dry_k * dt))),
         temperature_c |-> temp,
         aroma |->
           IF temp > params.overheat_c
           THEN leaf.aroma
                  - MulMicro(temp - params.overheat_c,
                             params.aroma_damage_k * dt)
           ELSE leaf.aroma
                  + Saturating(leaf.aroma, params.aroma_recover_per_s, dt),
         color |-> leaf.color
                     + Saturating(leaf.color, params.color_gain_per_s, dt)])

\* the coefficients a profile gives the rule of a stage
StageParams(model, state) ==
  CASE state = "STEAMING" -> model.steaming
    [] state = "ROLLING" -> model.rolling
    [] state = "DRYING" -> model.drying

\* the virtual call process->apply_step(leaf, dt) on a handler of kind state
apply_step(state, params, leaf, dt_seconds) ==
  CASE state = "STEAMING" ->
         SteamingProcess_apply_step(params, leaf, dt_seconds)
    [] state = "ROLLING" ->
         RollingProcess_apply_step(params, leaf, dt_seconds)
    [] state = "DRYING" ->
         DryingProcess_apply_step(params, leaf, dt_seconds)

(***************************************************************************)
(* tea_gui::TeaBatch (src/src/TeaBatch.cpp).  A batch is a record of the   *)
(* object's fields.  current_process_handler_ is a record of the handler's *)
(* kind and of the params_ it was built with; the empty unique_ptr         *)
(* (FINISHED) is NullHandler.  The doubles stage_elapsed_seconds_ and      *)
(* total_elapsed_seconds_ only ever hold whole seconds; pending_seconds_   *)
(* is a Double.  applied_ is a history field: one entry per apply_step     *)
(* call made on the batch since it was constructed or reset.               *)
(***************************************************************************)
NullHandler == [state |-> "null", params |-> [none |-> 0]]

Handler(state, params) == [state |-> state, params |-> params]

\* TeaBatch::process
process(b) ==
  IF b.current_process_handler_ = NullHandler THEN "FINISHED"
  ELSE b.current_process_handler_.state

\* TeaBatch::elapsed_seconds
elapsed_seconds(b) == b.total_elapsed_seconds_

\* TeaBatch::quality_score
quality_score(b) ==
  LET score == ((b.leaf_.aroma * 4) \div 10) + ((b.leaf_.color * 4) \div 10)
                 + (((1000000 - b.leaf_.moisture) * 20) \div 1000)
  IN  clamp(score, 0, 100000)

\* TeaBatch::quality_status
quality_status(b) ==
  LET is_finished == process(b) = "FINISHED"
      score == IF is_finished /\ b.has_quality_score_final_
               THEN b.quality_score_final_
               ELSE quality_score(b)
  IN  IF score >= 80000 THEN "GOOD"
      ELSE IF score >= 60000 THEN "OK" ELSE "BAD"

\* TeaBatch::normalize
TeaBatch_normalize(b) ==
  [b EXCEPT !.leaf_ =
     [@ EXCEPT !.moisture = clamp(@, 0, 1000000),
               !.aroma = clamp(@, 0, 100000),
               !.color = clamp(@, 0, 100000)]]

\* TeaBatch::stage_remaining_seconds
stage_remaining_seconds(b) ==
  LET steam_s == 30
      roll_s == 30
      dry_s == 60
      h == b.current_process_handler_
  IN  IF h = NullHandler \/ h.state = "STEAMING"
      THEN Max(0, steam_s - b.stage_elapsed_seconds_)
      ELSE IF h.state = "ROLLING"
      THEN Max(0, roll_s - b.stage_elapsed_seconds_)
      ELSE IF h.state = "DRYING"
      THEN Max(0, dry_s - b.stage_elapsed_seconds_)
      ELSE 0

\* mutant: the end of DRYING does not clear the handler, so the drying stage
\* starts over
advance_stage_drying_repeats(b) ==
  LET h == b.current_process_handler_
  IN  IF h = NullHandler \/ h.state = "FINISHED" THEN b
      ELSE IF stage_remaining_seconds(b) > 0 THEN b
      ELSE [b EXCEPT
              !.stage_elapsed_seconds_ = 0,
              !.current_process_handler_ =
                IF h.state = "STEAMING"
                THEN Handler("ROLLING", b.model_params_.rolling)
                ELSE IF h.state = "ROLLING"
                THEN Handler("DRYING", b.model_params_.drying)
                ELSE h]

\* mutant: the stage is left as it is when its time is used up
advance_stage_never(b) == b

\* TeaBatch::advance_stage_if_needed
advance_stage_if_needed(b) ==
  LET h == b.current_process_handler_
  IN  IF h = NullHandler \/ h.state = "FINISHED" THEN b
      ELSE IF stage_remaining_seconds(b) > 0 THEN b
      ELSE [b EXCEPT
              !.stage_elapsed_seconds_ = 0,
              !.current_process_handler_ =
                IF h.state = "STEAMING"
                THEN Handler("ROLLING", b.model_params_.rolling)
                ELSE IF h.state = "ROLLING"
                THEN Handler("DRYING", b.model_params_.drying)
                ELSE IF h.state = "DRYING" THEN NullHandler
                ELSE h]

\* mutant: the new profile always comes with a steaming handler, so the
\* batch falls back to the first stage
TeaBatch_set_model_restart(b, type) ==
  [b EXCEPT
     !.model_ = type,
     !.model_params_ = make_model(type),
     !.current_process_handler_ =
       Handler("STEAMING", make_model(type).steaming)]

\* mutant: the new profile is stored but the active handler is not rebuilt
TeaBatch_set_model_keep_handler(b, type) ==
  [b EXCEPT !.model_ = type, !.model_params_ = make_model(type)]

\* TeaBatch::set_model
TeaBatch_set_model(b, type) ==
  LET h == b.current_process_handler_
      p == make_model(type)
  IN  [b EXCEPT
         !.model_ = type,
         !.model_params_ = p,
         !.current_process_handler_ =
           IF h = NullHandler \/ h.state = "STEAMING"
           THEN Handler("STEAMING", p.steaming)
           ELSE IF h.state = "ROLLING" THEN Handler("ROLLING", p.rolling)
           ELSE IF h.state = "DRYING" THEN Handler("DRYING", p.drying)
           ELSE h]

\* TeaBatch::reset
TeaBatch_reset(b) ==
  TeaBatch_normalize(
    [b EXCEPT !.stage_elapsed_seconds_ = 0,
              !.total_elapsed_seconds_ = 0,
              !.pending_seconds_ = Zero,
              !.leaf_ = TeaLeaf,
              !.quality_score_final_ = 0,
              !.has_quality_score_final_ = FALSE,
              !.current_process_handler_ =
                Handler("STEAMING", b.model_params_.steaming),
              !.applied_ = << >>])

\* the member initialisers of TeaBatch.h, before the constructor body runs
TeaBatch_members ==
  [model_ |-> "DEFAULT",
   model_params_ |-> ModelParams,
   current_process_handler_ |-> NullHandler,
   stage_elapsed_seconds_ |-> 0,
   total_elapsed_seconds_ |-> 0,
   pending_seconds_ |-> Zero,
   leaf_ |-> TeaLeaf,
   quality_score_final_ |-> 0,
   has_quality_score_final_ |-> FALSE,
   applied_ |-> << >>]

\* TeaBatch::TeaBatch
TeaBatch == TeaBatch_reset(TeaBatch_set_model(TeaBatch_members, "DEFAULT"))

\* mutant: the pass takes all the time left, past the end of the stage
step_seconds_unsplit(remaining_seconds, stage_remaining) == remaining_seconds

\* the seconds one pass of update's while loop applies
step_seconds_of(remaining_seconds, stage_remaining) ==
  Min(remaining_seconds, stage_remaining)

\* mutant: an if in place of the while, so the time left over at a stage
\* boundary is dropped instead of carried into the next stage
update_loop_no_carry(b, remaining_seconds) ==
  LET h == b.current_process_handler_
      step_seconds ==
        step_seconds_of(remaining_seconds, stage_remaining_seconds(b))
  IN  IF ~(remaining_seconds > 0 /\ h # NullHandler) \/ step_seconds <= 0
      THEN b
      ELSE advance_stage_if_needed(TeaBatch_normalize(
             [b EXCEPT
                !.stage_elapsed_seconds_ = @ + step_seconds,
                !.total_elapsed_seconds_ = @ + step_seconds,
                !.leaf_ = apply_step(h.state, h.params, @, step_seconds),
                !.applied_ = Append(@, [state |-> h.state,
                                        params |-> h.params,
                                        seconds |-> step_seconds])]))

\* the while loop of TeaBatch::update
RECURSIVE update_loop(_, _)
update_loop(b, remaining_seconds) ==
  LET h == b.current_process_handler_
  IN  IF ~(remaining_seconds > 0 /\ h # NullHandler /\ h.state # "FINISHED")
      THEN b
      ELSE
        LET stage_remaining == stage_remaining_seconds(b)
            step_seconds == step_seconds_of(remaining_seconds, stage_remaining)
        IN  IF step_seconds <= 0 THEN b
            ELSE
              LET b1 == [b EXCEPT
                           !.stage_elapsed_seconds_ = @ + step_seconds,
                           !.total_elapsed_seconds_ = @ + step_seconds,
                           !.leaf_ = apply_step(h.state, h.params, @,
                                                step_seconds),
                           !.applied_ =
                             Append(@, [state |-> h.state,
                                        params |-> h.params,
                                        seconds |-> step_seconds])]
                  b2 == advance_stage_if_needed(TeaBatch_normalize(b1))
              IN  update_loop(b2, remaining_seconds - step_seconds)

\* mutant: the whole delta is added to total_elapsed_seconds_ at once, as
\* in the first version of update, instead of the seconds each pass applies
TeaBatch_update_bulk_elapsed(b, delta) ==
  IF process(b) = "FINISHED" THEN b
  ELSE
    LET pending == AddDouble(b.pending_seconds_, MaxZero(delta))
        remaining_seconds == pending.int
        b0 == [b EXCEPT !.pending_seconds_ = Double(0, pending.hi, pending.lo)]
    IN  IF remaining_seconds <= 0 THEN b0
        ELSE
          LET b1 == [update_loop(b0, remaining_seconds) EXCEPT
                       !.total_elapsed_seconds_ =
                         b0.total_elapsed_seconds_ + remaining_seconds]
          IN  IF ~b1.has_quality_score_final_ /\ process(b1) = "FINISHED"
              THEN [b1 EXCEPT !.quality_score_final_ = quality_score(b1),
                              !.has_quality_score_final_ = TRUE]
              ELSE b1

\* TeaBatch::update, delta in ticks of 1/Sub second
TeaBatch_update(b, delta) ==
  IF process(b) = "FINISHED" THEN b
  ELSE
    LET pending == AddDouble(b.pending_seconds_, MaxZero(delta))
        remaining_seconds == pending.int
        b0 == [b EXCEPT !.pending_seconds_ = Double(0, pending.hi, pending.lo)]
    IN  IF remaining_seconds <= 0 THEN b0
        ELSE
          LET b1 == update_loop(b0, remaining_seconds)
          IN  IF ~b1.has_quality_score_final_ /\ process(b1) = "FINISHED"
              THEN [b1 EXCEPT !.quality_score_final_ = quality_score(b1),
                              !.has_quality_score_final_ = TRUE]
              ELSE b1

(***************************************************************************)
(* tea::Simulator (src/src/simulation/Simulator.h, the definitions that    *)
(* follow the class).  stages_ is the vector of Stage; stage_index_ counts *)
(* from 0 as in the program, so stage i is stages_[i + 1] here.            *)
(***************************************************************************)
SimulationConfig(dt_seconds, steaming_seconds, rolling_seconds, drying_seconds, model) ==
  [dt_seconds |-> dt_seconds, steaming_seconds |-> steaming_seconds,
   rolling_seconds |-> rolling_seconds, drying_seconds |-> drying_seconds,
   model |-> model]

Stage(state, params, duration_seconds) ==
  [state |-> state, params |-> params, duration_seconds |-> duration_seconds]

\* mutant: the drying stage is pushed before the rolling stage
build_stages_swapped(config) ==
  LET model == make_model(config.model)
  IN  << Stage("STEAMING", model.steaming, config.steaming_seconds),
         Stage("DRYING", model.drying, config.drying_seconds),
         Stage("ROLLING", model.rolling, config.rolling_seconds) >>

\* Simulator::build_default_stages
build_default_stages(config) ==
  LET model == make_model(config.model)
  IN  << Stage("STEAMING", model.steaming, config.steaming_seconds),
         Stage("ROLLING", model.rolling, config.rolling_seconds),
         Stage("DRYING", model.drying, config.drying_seconds) >>

\* Simulator::Simulator(SimulationConfig)
Simulator(config) ==
  LET stages == build_default_stages(config)
  IN  [config_ |-> config,
       stages_ |-> stages,
       leaf_ |-> TeaLeaf,
       elapsed_seconds_ |-> 0,
       stage_index_ |-> 0,
       stage_remaining_seconds_ |->
         IF stages = << >> THEN 0 ELSE stages[1].duration_seconds]

\* Simulator::current_process
current_process(s) ==
  IF s.stages_ = << >> \/ s.stage_index_ >= Len(s.stages_) THEN "DRYING"
  ELSE s.stages_[s.stage_index_ + 1].state

\* the result of a step call: the object after it, the value returned, and
\* the apply_step calls it made (rule, seconds, and the stage's remaining
\* seconds when the rule was applied)
StepResult(s, ret, applied) == [sim |-> s, ret |-> ret, applied |-> applied]

\* mutant: the step is dt_seconds, not cut to the stage's remaining seconds
Simulator_step_no_min(s, dt_seconds) ==
  IF s.stages_ = << >> \/ s.stage_index_ >= Len(s.stages_)
  THEN StepResult(s, FALSE, << >>)
  ELSE
    LET advance == s.stage_remaining_seconds_ <= 0
        index == IF advance THEN s.stage_index_ + 1 ELSE s.stage_index_
    IN  IF advance /\ index >= Len(s.stages_)
        THEN StepResult([s EXCEPT !.stage_index_ = index], FALSE, << >>)
        ELSE
          LET stage == s.stages_[index + 1]
              remaining == IF advance THEN stage.duration_seconds
                           ELSE s.stage_remaining_seconds_
              step == dt_seconds
          IN  StepResult(
                [s EXCEPT
                   !.stage_index_ = index,
                   !.leaf_ = apply_step(stage.state, stage.params, @, step),
                   !.elapsed_seconds_ = @ + step,
                   !.stage_remaining_seconds_ = remaining - step],
                TRUE,
                << [rule |-> stage.state, seconds |-> step,
                    budget |-> remaining] >>)

\* mutant: the next stage's duration is not loaded when the stage advances
Simulator_step_no_reload(s, dt_seconds) ==
  IF s.stages_ = << >> \/ s.stage_index_ >= Len(s.stages_)
  THEN StepResult(s, FALSE, << >>)
  ELSE
    LET advance == s.stage_remaining_seconds_ <= 0
        index == IF advance THEN s.stage_index_ + 1 ELSE s.stage_index_
    IN  IF advance /\ index >= Len(s.stages_)
        THEN StepResult([s EXCEPT !.stage_index_ = index], FALSE, << >>)
        ELSE
          LET stage == s.stages_[index + 1]
              remaining == s.stage_remaining_seconds_
              step == Min(dt_seconds, remaining)
          IN  StepResult(
                [s EXCEPT
                   !.stage_index_ = index,
                   !.leaf_ = apply_step(stage.state, stage.params, @, step),
                   !.elapsed_seconds_ = @ + step,
                   !.stage_remaining_seconds_ = remaining - step],
                TRUE,
                << [rule |-> stage.state, seconds |-> step,
                    budget |-> remaining] >>)

\* mutant: what is left of dt_seconds at the end of a stage is applied to
\* the next stage in the same call
Simulator_step_carry(s, dt_seconds) ==
  IF s.stages_ = << >> \/ s.stage_index_ >= Len(s.stages_)
  THEN StepResult(s, FALSE, << >>)
  ELSE
    LET advance == s.stage_remaining_seconds_ <= 0
        index == IF advance THEN s.stage_index_ + 1 ELSE s.stage_index_
    IN  IF advance /\ index >= Len(s.stages_)
        THEN StepResult([s EXCEPT !.stage_index_ = index], FALSE, << >>)
        ELSE
          LET stage == s.stages_[index + 1]
              remaining == IF advance THEN stage.duration_seconds
                           ELSE s.stage_remaining_seconds_
              step == Min(dt_seconds, remaining)
              left == dt_seconds - step
              leaf1 == apply_step(stage.state, stage.params, s.leaf_, step)
              first == [rule |-> stage.state, seconds |-> step,
                        budget |-> remaining]
          IN  IF left > 0 /\ index + 1 < Len(s.stages_)
              THEN
                LET next == s.stages_[index + 2]
                    step2 == Min(left, next.duration_seconds)
                IN  StepResult(
                      [s EXCEPT
                         !.stage_index_ = index + 1,
                         !.leaf_ = apply_step(next.state, next.params, leaf1,
                                              step2),
                         !.elapsed_seconds_ = @ + step + step2,
                         !.stage_remaining_seconds_ =
                           next.duration_seconds - step2],
                      TRUE,
                      << first, [rule |-> next.state, seconds |-> step2,
                                 budget |-> next.duration_seconds] >>)
              ELSE
                StepResult(
                  [s EXCEPT
                     !.stage_index_ = index,
                     !.leaf_ = leaf1,
                     !.elapsed_seconds_ = @ + step,
                     !.stage_remaining_seconds_ = remaining - step],
                  TRUE, << first >>)

\* mutant: a completed simulator starts over from the first stage
Simulator_step_restart(s, dt_seconds) ==
  IF s.stages_ = << >> THEN StepResult(s, FALSE, << >>)
  ELSE
    LET wrap == s.stage_index_ >= Len(s.stages_)
        advance == ~wrap /\ s.stage_remaining_seconds_ <= 0
        index == IF wrap THEN 0
                 ELSE IF advance THEN s.stage_index_ + 1 ELSE s.stage_index_
    IN  IF advance /\ index >= Len(s.stages_)
        THEN StepResult([s EXCEPT !.stage_index_ = index], FALSE, << >>)
        ELSE
          LET stage == s.stages_[index + 1]
              remaining == IF advance \/ wrap THEN stage.duration_seconds
                           ELSE s.stage_remaining_seconds_
              step == Min(dt_seconds, remaining)
          IN  StepResult(
                [s EXCEPT
                   !.stage_index_ = index,
                   !.leaf_ = apply_step(stage.state, stage.params, @, step),
                   !.elapsed_seconds_ = @ + step,
                   !.stage_remaining_seconds_ = remaining - step],
                TRUE,
                << [rule |-> stage.state, seconds |-> step,
                    budget |-> remaining] >>)

\* Simulator::step (the CsvWriter, which step only writes to, is left out)
Simulator_step(s, dt_seconds) ==
  IF s.stages_ = << >> \/ s.stage_index_ >= Len(s.stages_)
  THEN StepResult(s, FALSE, << >>)
  ELSE
    LET advance == s.stage_remaining_seconds_ <= 0
        index == IF advance THEN s.stage_index_ + 1 ELSE s.stage_index_
    IN  IF advance /\ index >= Len(s.stages_)
        THEN StepResult([s EXCEPT !.stage_index_ = index], FALSE, << >>)
        ELSE
          LET stage == s.stages_[index + 1]
              remaining == IF advance THEN stage.duration_seconds
                           ELSE s.stage_remaining_seconds_
              step == Min(dt_seconds, remaining)
          IN  StepResult(
                [s EXCEPT
                   !.stage_index_ = index,
                   !.leaf_ = apply_step(stage.state, stage.params, @, step),
                   !.elapsed_seconds_ = @ + step,
                   !.stage_remaining_seconds_ = remaining - step],
                TRUE,
                << [rule |-> stage.state, seconds |-> step,
                    budget |-> remaining] >>)

(***************************************************************************)
(* tea_io::CsvWriter (io/CsvWriter.h, io/CsvWriter.cpp).  A writer is a    *)
(* record: is_open is ofs_.is_open(), out is the sequence of the lines     *)
(* written to the file so far, each a record of its fields.  A printed     *)
(* number is the integer of its digits at the precision of the column.     *)
(***************************************************************************)
CsvHeader == "process,elapsedSeconds,moisture,temperatureC,aroma,color,qualityScore,qualityStatus"

\* the header line as it stands in the file
HeaderLine == [line |-> "header", text |-> CsvHeader]

\* CsvWriter::CsvWriter: the file is open or not, as the file system decides
CsvWriter(is_open) ==
  [is_open |-> is_open, header_written_ |-> FALSE, out |-> << >>]

\* mutant: the header is written whenever it is asked for
CsvWriter_write_header_always(w) ==
  IF ~w.is_open THEN w
  ELSE [w EXCEPT !.out = Append(@, HeaderLine), !.header_written_ = TRUE]

\* mutant: the writer does not look at the state of its file
CsvWriter_write_header_unchecked(w) ==
  IF w.header_written_ THEN w
  ELSE [w EXCEPT !.out = Append(@, HeaderLine), !.header_written_ = TRUE]

\* CsvWriter::write_header
CsvWriter_write_header(w) ==
  IF ~w.is_open \/ w.header_written_ THEN w
  ELSE [w EXCEPT !.out = Append(@, HeaderLine), !.header_written_ = TRUE]

\* mutant: the score is not clamped
CsvWriter_quality_score_unclamped(moisture, aroma, color) ==
  ((aroma * 4) \div 10) + ((color * 4) \div 10)
    + (((1000000 - moisture) * 20) \div 1000)

\* CsvWriter::quality_score, in thousandths
CsvWriter_quality_score(moisture, aroma, color) ==
  LET score == ((aroma * 4) \div 10) + ((color * 4) \div 10)
                 + (((1000000 - moisture) * 20) \div 1000)
  IN  clamp(score, 0, 100000)

\* mutant: the upper threshold is exclusive
CsvWriter_quality_status_exclusive(score) ==
  IF score > 80000 THEN "GOOD"
  ELSE IF score >= 60000 THEN "OK" ELSE "BAD"

\* CsvWriter::quality_status
CsvWriter_quality_status(score) ==
  IF score >= 80000 THEN "GOOD"
  ELSE IF score >= 60000 THEN "OK" ELSE "BAD"

\* std::fixed << std::setprecision(2) on a value held in thousandths: the
\* nearest hundredth
Fixed2(thousandths) == (thousandths + 5) \div 10

\* the line write_row prints
CsvLine(name, elapsed, moisture, temperature_c, aroma, color) ==
  LET score == CsvWriter_quality_score(moisture, aroma, color)
  IN  [line |-> "row", process |-> name, elapsedSeconds |-> elapsed,
       moisture |-> moisture, temperatureC |-> temperature_c,
       aroma |-> aroma, color |-> color, qualityScore |-> Fixed2(score),
       qualityStatus |-> CsvWriter_quality_status(score)]

\* CsvWriter::write_row
CsvWriter_write_row(w, name, elapsed, moisture, temperature_c, aroma, color) ==
  IF ~w.is_open THEN w
  ELSE
    LET w1 == IF ~w.header_written_ THEN CsvWriter_write_header(w) ELSE w
    IN  [w1 EXCEPT !.out =
           Append(@, CsvLine(name, elapsed, moisture,
                             temperature_c, aroma, color))]

\* Simulator::step(dt_seconds, csv) with its writer: csv is << >> for a null
\* pointer and << w >> for a pointer to the writer w
Simulator_step_csv(s, dt_seconds, csv) ==
  LET r == Simulator_step(s, dt_seconds)
  IN  [sim |-> r.sim, ret |-> r.ret, applied |-> r.applied,
       csv |-> IF r.ret /\ csv # << >>
               THEN << CsvWriter_write_row(
                         csv[1], current_process(r.sim),
                         r.sim.elapsed_seconds_, r.sim.leaf_.moisture,
                         r.sim.leaf_.temperature_c, r.sim.leaf_.aroma,
                         r.sim.leaf_.color) >>
               ELSE csv]

\* Simulator::set_initial_leaf
Simulator_set_initial_leaf(s, leaf) == [s EXCEPT !.leaf_ = normalize(leaf)]

(***************************************************************************)
(* The command-line driver (src/src/cli/main.cpp): a vector of simulators, *)
(* one per batch, each with its own optional CsvWriter, stepped round by   *)
(* round until no simulator steps any more.  The driver's state is a       *)
(* record of sims, csvs and any_running.                                   *)
(***************************************************************************)
\* the initial leaf of batch i (counted from 0), main.cpp lines 69-78
cli_initial_leaf(i) ==
  [moisture |-> clamp(TeaLeaf.moisture - 10000 * i, 0, 1000000),
   temperature_c |-> TeaLeaf.temperature_c,
   aroma |-> clamp(TeaLeaf.aroma + 500 * i, 0, 100000),
   color |-> clamp(TeaLeaf.color + 300 * i, 0, 100000)]

\* the simulators the driver builds for a configuration and a batch count
cli_build_sims(config, batches) ==
  [i \in 1..batches |->
     Simulator_set_initial_leaf(Simulator(config), cli_initial_leaf(i - 1))]

\* the writers the driver opens: none when CSV output is off, else one per
\* batch, its header written if its file could be opened
cli_open_csvs(batches, csv_enabled, opened) ==
  [i \in 1..batches |->
     IF csv_enabled THEN << CsvWriter_write_header(CsvWriter(opened[i])) >>
     ELSE << >>]

\* mutant: the simulators share one leaf, so a step of batch i also
\* overwrites the leaf of the batch after it
cli_visit_shared_leaf(st, i, dt_seconds) ==
  LET r == Simulator_step_csv(st.sims[i], dt_seconds, st.csvs[i])
      j == (i % Len(st.sims)) + 1
      s1 == [st.sims EXCEPT ![i] = r.sim]
  IN  [sims |-> IF r.ret THEN [s1 EXCEPT ![j].leaf_ = r.sim.leaf_] ELSE s1,
       csvs |-> [st.csvs EXCEPT ![i] = r.csv],
       any_running |-> st.any_running \/ r.ret]

\* the body of the for loop on batch i, main.cpp lines 100-119
cli_visit(st, i, dt_seconds) ==
  LET r == Simulator_step_csv(st.sims[i], dt_seconds, st.csvs[i])
  IN  [sims |-> [st.sims EXCEPT ![i] = r.sim],
       csvs |-> [st.csvs EXCEPT ![i] = r.csv],
       any_running |-> st.any_running \/ r.ret]

RECURSIVE cli_visit_all(_, _, _)
\* the for loop, visiting the batches in the given order
cli_visit_all(st, order, dt_seconds) ==
  IF order = << >> THEN st
  ELSE cli_visit_all(cli_visit(st, Head(order), dt_seconds), Tail(order),
                     dt_seconds)

\* one pass of the while loop, main.cpp lines 97-120: any_running is
\* cleared, then every batch is visited, by the code in index order
cli_round(st, order) ==
  cli_visit_all([st EXCEPT !.any_running = FALSE], order,
                st.sims[1].config_.dt_seconds)

(***************************************************************************)
(* tea_gui::Simulator (src/src/Simulator.cpp): the run controller of the   *)
(* interactive driver.  A controller is a record of the object's fields;   *)
(* batches_ is the vector of TeaBatch.                                     *)
(***************************************************************************)
\* the member initialisers of the class, before the constructor body runs
GuiSimulator_members ==
  [running_ |-> FALSE, model_ |-> "DEFAULT", batch_count_ |-> 1,
   batches_ |-> << >>]

\* mutant: the batches are rebuilt while running too
GuiSimulator_set_batch_count_unguarded(g, count) ==
  LET n == IF count < 1 THEN 1 ELSE count
  IN  [g EXCEPT
         !.batch_count_ = n,
         !.batches_ =
           [i \in 1..n |-> TeaBatch_reset(TeaBatch_set_model(TeaBatch,
                                                             g.model_))]]

\* Simulator::set_batch_count
GuiSimulator_set_batch_count(g, count) ==
  IF g.running_ THEN g
  ELSE
    LET n == IF count < 1 THEN 1 ELSE count
    IN  [g EXCEPT
           !.batch_count_ = n,
           !.batches_ =
             [i \in 1..n |-> TeaBatch_reset(TeaBatch_set_model(TeaBatch,
                                                               g.model_))]]

\* Simulator::Simulator
GuiSimulator == GuiSimulator_set_batch_count(GuiSimulator_members, 1)

\* mutant: the profile is changed and the batches reset while running too
GuiSimulator_set_model_unguarded(g, type) ==
  [g EXCEPT
     !.model_ = type,
     !.batches_ =
       [i \in 1..Len(g.batches_) |->
          TeaBatch_reset(TeaBatch_set_model(g.batches_[i], type))]]

\* Simulator::set_model
GuiSimulator_set_model(g, type) ==
  IF g.running_ THEN g
  ELSE [g EXCEPT
          !.model_ = type,
          !.batches_ =
            [i \in 1..Len(g.batches_) |->
               TeaBatch_reset(TeaBatch_set_model(g.batches_[i], type))]]

\* Simulator::model
GuiSimulator_model(g) == g.model_

\* mutant: start does not look at the primary batch
GuiSimulator_start_unconditional(g) ==
  IF g.batches_ = << >> THEN g ELSE [g EXCEPT !.running_ = TRUE]

\* Simulator::start
GuiSimulator_start(g) ==
  IF g.batches_ = << >> THEN g
  ELSE IF process(g.batches_[1]) = "FINISHED" THEN g
  ELSE [g EXCEPT !.running_ = TRUE]

\* Simulator::pause
GuiSimulator_pause(g) == [g EXCEPT !.running_ = FALSE]

\* mutant: reset stops the run and leaves the batches where they are
GuiSimulator_reset_only_stops(g) == [g EXCEPT !.running_ = FALSE]

\* Simulator::reset
GuiSimulator_reset(g) ==
  [g EXCEPT
     !.running_ = FALSE,
     !.batches_ =
       [i \in 1..Len(g.batches_) |->
          TeaBatch_reset(TeaBatch_set_model(g.batches_[i], g.model_))]]

\* the loop body of Simulator::update on one batch
GuiSimulator_update_batch(b, delta) ==
  IF process(b) # "FINISHED" THEN TeaBatch_update(b, delta) ELSE b

\* mutant: running_ is left as it is when the last batch finishes
GuiSimulator_update_no_autostop(g, delta) ==
  IF ~g.running_ THEN g
  ELSE [g EXCEPT
          !.batches_ = [i \in 1..Len(g.batches_) |->
                          GuiSimulator_update_batch(g.batches_[i], delta)]]

\* mutant: the batches are updated whether the controller runs or not
GuiSimulator_update_unguarded(g, delta) ==
  LET batches == [i \in 1..Len(g.batches_) |->
                    GuiSimulator_update_batch(g.batches_[i], delta)]
  IN  [g EXCEPT
         !.batches_ = batches,
         !.running_ = g.running_
                        /\ \E i \in 1..Len(batches) :
                             process(batches[i]) # "FINISHED"]

\* mutant: only the primary batch is advanced
GuiSimulator_update_primary_only(g, delta) ==
  IF ~g.running_ THEN g
  ELSE
    LET batches == [i \in 1..Len(g.batches_) |->
                      IF i = 1
                      THEN GuiSimulator_update_batch(g.batches_[i], delta)
                      ELSE g.batches_[i]]
        any_active == \E i \in 1..Len(batches) :
                        process(batches[i]) # "FINISHED"
    IN  [g EXCEPT !.batches_ = batches, !.running_ = any_active]

\* Simulator::update
GuiSimulator_update(g, delta) ==
  IF ~g.running_ THEN g
  ELSE
    LET batches == [i \in 1..Len(g.batches_) |->
                      GuiSimulator_update_batch(g.batches_[i], delta)]
        any_active == \E i \in 1..Len(batches) :
                        process(batches[i]) # "FINISHED"
    IN  [g EXCEPT !.batches_ = batches, !.running_ = any_active]

\* Simulator::is_running
is_running(g) == g.running_

\* Simulator::batch
GuiSimulator_batch(g) == g.batches_[1]

\* Simulator::batch_count
batch_count(g) == g.batch_count_

\* Simulator::batch_at
batch_at(g, index) ==
  LET clamped == IF index < 0 THEN 0
                 ELSE IF index >= g.batch_count_ THEN g.batch_count_ - 1
                 ELSE index
  IN  g.batches_[clamped + 1]

(***************************************************************************)
(* tea_cli::parse_args.  A command-line argument is a string; Chars gives  *)
(* the characters std::strtol reads from it.                               *)
(***************************************************************************)
Digit == {"0", "1", "2", "3", "4", "5", "6", "7", "8", "9"}

DigitVal(c) ==
  CASE c = "0" -> 0 [] c = "1" -> 1 [] c = "2" -> 2 [] c = "3" -> 3
    [] c = "4" -> 4 [] c = "5" -> 5 [] c = "6" -> 6 [] c = "7" -> 7
    [] c = "8" -> 8 [] c = "9" -> 9

Chars(s) ==
  CASE s = "" -> << >>
    [] s = "0" -> <<"0">>
    [] s = "1" -> <<"1">>
    [] s = "120" -> <<"1", "2", "0">>
    [] s = "128" -> <<"1", "2", "8">>
    [] s = "129" -> <<"1", "2", "9">>
    [] s = "86400" -> <<"8", "6", "4", "0", "0">>
    [] s = "86401" -> <<"8", "6", "4", "0", "1">>
    [] s = "-5" -> <<"-", "5">>
    [] s = "+7" -> <<"+", "7">>
    [] s = "12x" -> <<"1", "2", "x">>
    [] s = "gentle" -> <<"g", "e", "n", "t", "l", "e">>
    [] s = "invalid" -> <<"i", "n", "v", "a", "l", "i", "d">>
    [] s = "-h" -> <<"-", "h">>
    [] s = "--help" -> <<"-", "-", "h", "e", "l", "p">>
    [] s = "--no-csv" -> <<"-", "-", "n", "o", "-", "c", "s", "v">>
    [] s = "--dt" -> <<"-", "-", "d", "t">>
    [] s = "--steaming" ->
         <<"-", "-", "s", "t", "e", "a", "m", "i", "n", "g">>
    [] s = "--rolling" -> <<"-", "-", "r", "o", "l", "l", "i", "n", "g">>
    [] s = "--drying" -> <<"-", "-", "d", "r", "y", "i", "n", "g">>
    [] s = "--csv" -> <<"-", "-", "c", "s", "v">>
    [] s = "--model" -> <<"-", "-", "m", "o", "d", "e", "l">>
    [] s = "--batches" -> <<"-", "-", "b", "a", "t", "c", "h", "e", "s">>
    [] s = "--unknown" -> <<"-", "-", "u", "n", "k", "n", "o", "w", "n">>

\* the end of the white space std::strtol skips, from position i
RECURSIVE SkipSpace(_, _)
SkipSpace(cs, i) ==
  IF i <= Len(cs) /\ cs[i] = " " THEN SkipSpace(cs, i + 1) ELSE i

\* the digits from position i: the value read so far and the end position
\* (arguments here have at most five digits, so the long does not overflow)
RECURSIVE ReadDigits(_, _, _)
ReadDigits(cs, i, acc) ==
  IF i <= Len(cs) /\ cs[i] \in Digit
  THEN ReadDigits(cs, i + 1, acc * 10 + DigitVal(cs[i]))
  ELSE [value |-> acc, end |-> i]

\* std::strtol(s, &end, 10): white space, an optional sign, digits; with no
\* digit the value is 0 and end is the start of the string
strtol(cs) ==
  LET start == SkipSpace(cs, 1)
      signed == start <= Len(cs) /\ cs[start] \in {"+", "-"}
      first == IF signed THEN start + 1 ELSE start
      read == ReadDigits(cs, first, 0)
  IN  IF read.end = first
      THEN [value |-> 0, end |-> 1]
      ELSE [value |-> IF signed /\ cs[start] = "-" THEN 0 - read.value
                      ELSE read.value,
            end |-> read.end]

\* mutant: zero is accepted
parse_positive_int_zero(s) ==
  LET cs == Chars(s)
      r == strtol(cs)
  IN  IF cs = << >> THEN << >>
      ELSE IF r.end = 1 \/ r.end <= Len(cs) THEN << >>
      ELSE IF r.value < 0 \/ r.value > 24 * 60 * 60 THEN << >>
      ELSE << r.value >>

\* the optional int: << >> is std::nullopt
parse_positive_int(s) ==
  LET cs == Chars(s)
      r == strtol(cs)
  IN  IF cs = << >> THEN << >>
      ELSE IF r.end = 1 \/ r.end <= Len(cs) THEN << >>
      ELSE IF r.value <= 0 \/ r.value > 24 * 60 * 60 THEN << >>
      ELSE << r.value >>

\* a default-constructed Args; error << >> is std::nullopt
Args ==
  [dt_seconds |-> 1, steaming_seconds |-> 30, rolling_seconds |-> 30,
   drying_seconds |-> 60, csv_enabled |-> TRUE,
   csv_path |-> "tea_factory_cli.csv", model |-> "default", batches |-> 1,
   show_help |-> FALSE, error |-> << >>]

ValueFlags == {"--dt", "--steaming", "--rolling", "--drying", "--csv", "--model", "--batches"}

\* the --model branch: the result, returned at once when error is set
parse_model(args, v) ==
  IF v \notin {"default", "gentle", "aggressive"}
  THEN [args EXCEPT !.model = v, !.error = <<"Invalid model: ", v>>]
  ELSE [args EXCEPT !.model = v]

\* the --batches branch
parse_batches(args, v) ==
  LET parsed == parse_positive_int(v)
  IN  IF parsed = << >> \/ parsed[1] > 128
      THEN [args EXCEPT !.error = <<"Invalid batches: ", v>>]
      ELSE [args EXCEPT !.batches = parsed[1]]

\* one flag a with its value v (the body of the value-flag branch)
parse_value(args, a, v) ==
  IF a = "--csv"
  THEN IF v = ""
       THEN [args EXCEPT !.csv_path = v, !.error = <<"CSV path is empty">>]
       ELSE [args EXCEPT !.csv_path = v]
  ELSE IF a = "--model" THEN parse_model(args, v)
  ELSE IF a = "--batches" THEN parse_batches(args, v)
  ELSE LET parsed == parse_positive_int(v)
       IN  IF parsed = << >>
           THEN [args EXCEPT !.error = <<"Invalid value for ", a, v>>]
           ELSE CASE a = "--dt" -> [args EXCEPT !.dt_seconds = parsed[1]]
                  [] a = "--steaming" ->
                       [args EXCEPT !.steaming_seconds = parsed[1]]
                  [] a = "--rolling" ->
                       [args EXCEPT !.rolling_seconds = parsed[1]]
                  [] a = "--drying" ->
                       [args EXCEPT !.drying_seconds = parsed[1]]

\* the checks after the loop
parse_final(args) ==
  IF args.dt_seconds <= 0
  THEN [args EXCEPT !.error = <<"dt_seconds must be > 0">>]
  ELSE IF args.steaming_seconds <= 0 \/ args.rolling_seconds <= 0
          \/ args.drying_seconds <= 0
  THEN [args EXCEPT !.error = <<"stage seconds must be > 0">>]
  ELSE args

\* the loop of parse_args from index i; argv[i] of the code is argv[i + 1]
RECURSIVE parse_loop(_, _, _)
parse_loop(args, argv, i) ==
  LET argc == Len(argv)
      a == argv[i + 1]
  IN  IF i >= argc THEN parse_final(args)
      ELSE IF a = "-h" \/ a = "--help" THEN [args EXCEPT !.show_help = TRUE]
      ELSE IF a = "--no-csv"
      THEN parse_loop([args EXCEPT !.csv_enabled = FALSE], argv, i + 1)
      ELSE IF a \in ValueFlags
      THEN IF i + 1 >= argc
           THEN [args EXCEPT !.error = <<"Missing value for ", a>>]
           ELSE LET next == parse_value(args, a, argv[i + 2])
                IN  IF next.error # << >> THEN next
                    ELSE parse_loop(next, argv, i + 2)
      ELSE [args EXCEPT !.error = <<"Unknown argument: ", a>>]

\* parse_args(argc, argv), argv[0] being the program name
parse_args(argv) == parse_loop(Args, argv, 1)

(***************************************************************************)
(* State.                                                                  *)
(*   batch       a tea_gui::TeaBatch                                       *)
(*   batch_pre   the batch as it was before the last operation on it       *)
(*   last_op     the last operation on the batch and its argument          *)
(*   deltas      the deltas (ticks) of the update calls since the batch    *)
(*               was last fresh (constructed or reset)                     *)
(*   fresh_run   TRUE while update is the only operation applied to the    *)
(*               batch since it was last fresh                             *)
(*   calls       operations applied to the batch                           *)
(*   sim         a tea::Simulator                                          *)
(*   sim_pre     the simulator as it was before the last step call         *)
(*   sim_last    the last step call: its dt_seconds, what it returned,     *)
(*               and whether a step call before it had returned false      *)
(*   sim_log     one entry per step call that returned true: its           *)
(*               dt_seconds, the apply_step calls it made, and what        *)
(*               current_process() returned after it                       *)
(*   sim_calls   step calls made (counted where the calls are bounded)     *)
(*   gui         a tea_gui::Simulator                                      *)
(*   gui_pre     the controller as it was before the last operation on it  *)
(*   gui_op      the last operation on the controller and its argument     *)
(*   gui_calls   operations applied to the controller                      *)
(***************************************************************************)
VARIABLES batch, batch_pre, last_op, deltas, fresh_run, calls,
          sim, sim_pre, sim_last, sim_log, sim_calls,
          gui, gui_pre, gui_op, gui_calls,
          prog, sims, sims_pre, csvs, any_running, cli_pc,
          csv, csv_log,
          rule_leaf, rule_pre, rule_op, rule_calls,
          fn_in, fn_out,
          cmdline, cmd_out

batch_vars == <<batch, batch_pre, last_op, deltas, fresh_run, calls>>

sim_vars == <<sim, sim_pre, sim_last, sim_log, sim_calls>>

gui_vars == <<gui, gui_pre, gui_op, gui_calls>>

cli_vars == <<sims, sims_pre, csvs, any_running, cli_pc>>

\* the state of the programs and objects added after the three above
csv_vars == <<csv, csv_log>>

rule_vars == <<rule_leaf, rule_pre, rule_op, rule_calls>>

fn_vars == <<fn_in, fn_out>>

args_vars == <<cmdline, cmd_out>>

ext_vars == <<prog, cli_vars, csv_vars, rule_vars, fn_vars, args_vars>>

vars == <<batch, batch_pre, last_op, deltas, fresh_run, calls,
          sim, sim_pre, sim_last, sim_log, sim_calls,
          gui, gui_pre, gui_op, gui_calls, ext_vars>>

\* the deltas handed to TeaBatch::update, in seconds and then in ticks:
\* whole seconds inside and across the stages, zero, a negative delta,
\* a tenth and a half second
WholeSeconds == {1, 2, 5, 30, 31, 60, 61, 120, 125}

BatchDeltas == {w * Sub : w \in WholeSeconds} \cup {0, -Sub, 1, 5}

NoOp == [op |-> "none", arg |-> 0]

InitBatchVars ==
  /\ batch = TeaBatch
  /\ batch_pre = TeaBatch
  /\ last_op = NoOp
  /\ deltas = << >>
  /\ fresh_run = TRUE
  /\ calls = 0

InitSimVars(config) ==
  /\ sim = Simulator(config)
  /\ sim_pre = Simulator(config)
  /\ sim_last = [called |-> FALSE, dt |-> 0, ret |-> FALSE,
                 after_false |-> FALSE]
  /\ sim_log = << >>
  /\ sim_calls = 0

InitGuiVars ==
  /\ gui = GuiSimulator
  /\ gui_pre = GuiSimulator
  /\ gui_op = NoOp
  /\ gui_calls = 0

\* the default configuration of SimulationConfig
DefaultConfig == SimulationConfig(1, 30, 30, 60, "DEFAULT")

\* the driver after it has built its simulators, before it opens any file
InitCliVars(config, batches) ==
  /\ sims = cli_build_sims(config, batches)
  /\ sims_pre = cli_build_sims(config, batches)
  /\ csvs = [i \in 1..batches |-> << >>]
  /\ any_running = TRUE
  /\ cli_pc = "open"

\* the programs: prog names the one that runs
Programs == {"batch", "sim", "gui", "cli", "csv", "rule", "fn", "args"}

\* a writer just constructed, and the calls made on it so far
InitCsvVars(is_open) ==
  /\ csv = CsvWriter(is_open)
  /\ csv_log = << >>

\* a leaf handed to the stage rules, and the last call made on it
InitRuleVars(leaf) ==
  /\ rule_leaf = leaf
  /\ rule_pre = leaf
  /\ rule_op = [state |-> "STEAMING", model |-> "DEFAULT", dt |-> 0]
  /\ rule_calls = 0

\* the arguments of the free functions, and the last result
InitFnVars(leaf, score) ==
  /\ fn_in = [leaf |-> leaf, score |-> score]
  /\ fn_out = [op |-> "none"]

\* the objects of the programs that do not run
\* the command line before parse_args is called on it
InitArgsVars(argv) ==
  /\ cmdline = argv
  /\ cmd_out = [op |-> "none"]

InitExtVars ==
  /\ InitCliVars(DefaultConfig, 1)
  /\ InitCsvVars(TRUE)
  /\ InitRuleVars(TeaLeaf)
  /\ InitFnVars(TeaLeaf, 0)
  /\ InitArgsVars(<<"tea_factory_simulator_cli">>)

\* the configurations a simulator is constructed with
Configs ==
  { SimulationConfig(dt, a, b, c, m) :
      dt \in 1..MaxDt, a \in 1..MaxDur, b \in 1..MaxDur, c \in 1..MaxDur,
      m \in ModelType }

(***************************************************************************)
(* Operations on the batch.                                                *)
(***************************************************************************)
BatchUpdate ==
  /\ calls < MaxCalls
  /\ \E d \in BatchDeltas :
       /\ batch' = TeaBatch_update(batch, d)
       /\ last_op' = [op |-> "update", arg |-> d]
       /\ deltas' = Append(deltas, d)
  /\ batch_pre' = batch
  /\ calls' = calls + 1
  /\ UNCHANGED fresh_run
  /\ UNCHANGED sim_vars
  /\ UNCHANGED gui_vars
  /\ UNCHANGED ext_vars

BatchSetModel ==
  /\ calls < MaxCalls
  /\ \E k \in ModelType :
       /\ batch' = TeaBatch_set_model(batch, k)
       /\ last_op' = [op |-> "set_model", arg |-> k]
  /\ batch_pre' = batch
  /\ calls' = calls + 1
  /\ fresh_run' = (fresh_run /\ deltas = << >>)
  /\ UNCHANGED deltas
  /\ UNCHANGED sim_vars
  /\ UNCHANGED gui_vars
  /\ UNCHANGED ext_vars

BatchReset ==
  /\ calls < MaxCalls
  /\ batch' = TeaBatch_reset(batch)
  /\ last_op' = [op |-> "reset", arg |-> 0]
  /\ batch_pre' = batch
  /\ calls' = calls + 1
  /\ fresh_run' = TRUE
  /\ deltas' = << >>
  /\ UNCHANGED sim_vars
  /\ UNCHANGED gui_vars
  /\ UNCHANGED ext_vars

\* the interactive driver's frames: update calls of sub-second deltas
FracDeltas == {1, 5}

BatchUpdateFrac ==
  /\ calls < MaxFracCalls
  /\ \E d \in FracDeltas :
       /\ batch' = TeaBatch_update(batch, d)
       /\ last_op' = [op |-> "update", arg |-> d]
       /\ deltas' = Append(deltas, d)
  /\ batch_pre' = batch
  /\ calls' = calls + 1
  /\ UNCHANGED fresh_run
  /\ UNCHANGED sim_vars
  /\ UNCHANGED gui_vars
  /\ UNCHANGED ext_vars

NextBatch == BatchUpdate \/ BatchSetModel \/ BatchReset

NextBatchFrac == BatchUpdateFrac

InitBatch ==
  /\ InitBatchVars
  /\ InitSimVars(DefaultConfig)
  /\ InitGuiVars
  /\ InitExtVars
  /\ prog = "batch"

SpecBatch == InitBatch /\ [][NextBatch]_vars

SpecBatchFrac == InitBatch /\ [][NextBatchFrac]_vars

(***************************************************************************)
(* Operations on the simulator.                                            *)
(***************************************************************************)
SimStepWith(dt) ==
  \E r \in {Simulator_step(sim, dt)} :
      /\ sim' = r.sim
      /\ sim_pre' = sim
      /\ sim_last' = [called |-> TRUE, dt |-> dt, ret |-> r.ret,
                       after_false |->
                         \/ sim_last.after_false
                         \/ (sim_last.called /\ ~sim_last.ret)]
      /\ sim_log' = IF r.ret
                    THEN Append(sim_log, [dt |-> dt, applied |-> r.applied,
                                          seen |-> current_process(r.sim)])
                    ELSE sim_log

\* the driver's loop: while (sim.step(config.dt_seconds, csv))
SimStep ==
  /\ SimStepWith(sim.config_.dt_seconds)
  /\ UNCHANGED sim_calls
  /\ UNCHANGED batch_vars
  /\ UNCHANGED gui_vars
  /\ UNCHANGED ext_vars

\* a caller that hands a zero or a negative dt_seconds
SimStepNonPositive ==
  /\ sim_calls < MaxSimCalls
  /\ \E dt \in {-1, 0} : SimStepWith(dt)
  /\ sim_calls' = sim_calls + 1
  /\ UNCHANGED batch_vars
  /\ UNCHANGED gui_vars
  /\ UNCHANGED ext_vars

\* the driver's call, counted
SimStepCounted ==
  /\ sim_calls < MaxSimCalls
  /\ SimStepWith(sim.config_.dt_seconds)
  /\ sim_calls' = sim_calls + 1
  /\ UNCHANGED batch_vars
  /\ UNCHANGED gui_vars
  /\ UNCHANGED ext_vars

InitSim ==
  /\ InitBatchVars
  /\ InitGuiVars
  /\ InitExtVars
  /\ prog = "sim"
  /\ \E config \in Configs : InitSimVars(config)

NextSim == SimStep

NextSimAny == SimStepCounted \/ SimStepNonPositive

SpecSim == InitSim /\ [][NextSim]_vars

SpecSimAny == InitSim /\ [][NextSimAny]_vars

\* the driver calls step again and again until it returns false
SpecSimFair == InitSim /\ [][NextSim]_vars /\ WF_vars(SimStep)

(***************************************************************************)
(* Operations on the run controller: what the interactive driver calls     *)
(* from its buttons and, once per frame, update.                           *)
(***************************************************************************)
\* the frame times handed to update, in ticks: half a second, and frames
\* that carry a stage or the whole run
GuiDeltas == {5, 30 * Sub, 120 * Sub}

\* the batch counts asked for, zero included
BatchCounts == 0..MaxBatches

\* one operation op with argument arg that takes the controller to g
GuiCall(op, arg, g) ==
  /\ gui_calls < MaxGuiCalls
  /\ gui' = g
  /\ gui_pre' = gui
  /\ gui_op' = [op |-> op, arg |-> arg]
  /\ gui_calls' = gui_calls + 1

GuiStart ==
  /\ GuiCall("start", 0, GuiSimulator_start(gui))
  /\ UNCHANGED batch_vars
  /\ UNCHANGED sim_vars
  /\ UNCHANGED ext_vars

GuiPause ==
  /\ GuiCall("pause", 0, GuiSimulator_pause(gui))
  /\ UNCHANGED batch_vars
  /\ UNCHANGED sim_vars
  /\ UNCHANGED ext_vars

GuiReset ==
  /\ GuiCall("reset", 0, GuiSimulator_reset(gui))
  /\ UNCHANGED batch_vars
  /\ UNCHANGED sim_vars
  /\ UNCHANGED ext_vars

GuiUpdate ==
  /\ \E d \in GuiDeltas : GuiCall("update", d, GuiSimulator_update(gui, d))
  /\ UNCHANGED batch_vars
  /\ UNCHANGED sim_vars
  /\ UNCHANGED ext_vars

GuiSetModel ==
  /\ \E k \in ModelType :
       GuiCall("set_model", k, GuiSimulator_set_model(gui, k))
  /\ UNCHANGED batch_vars
  /\ UNCHANGED sim_vars
  /\ UNCHANGED ext_vars

GuiSetBatchCount ==
  /\ \E n \in BatchCounts :
       GuiCall("set_batch_count", n, GuiSimulator_set_batch_count(gui, n))
  /\ UNCHANGED batch_vars
  /\ UNCHANGED sim_vars
  /\ UNCHANGED ext_vars

InitGui ==
  /\ InitBatchVars
  /\ InitSimVars(DefaultConfig)
  /\ InitGuiVars
  /\ InitExtVars
  /\ prog = "gui"

NextGui ==
  \/ GuiStart
  \/ GuiPause
  \/ GuiReset
  \/ GuiUpdate
  \/ GuiSetModel
  \/ GuiSetBatchCount

SpecGui == InitGui /\ [][NextGui]_vars

(***************************************************************************)
(* The command-line driver with several batches.                           *)
(***************************************************************************)
\* the configurations the driver is run with: --dt and the stage seconds
CliConfigs ==
  { SimulationConfig(dt, a, a, MaxDur, m) :
      dt \in {2, 3}, a \in 1..MaxDur, m \in ModelType }

CliState == [sims |-> sims, csvs |-> csvs, any_running |-> any_running]

\* the index order in which the for loop visits the batches
IndexOrder(n) == [i \in 1..n |-> i]

\* main.cpp lines 82-95: the CSV files are opened and their headers written
CliOpenCsv ==
  /\ cli_pc = "open"
  /\ \E csv_enabled \in BOOLEAN :
       \E opened \in [1..Len(sims) -> BOOLEAN] :
         csvs' = cli_open_csvs(Len(sims), csv_enabled, opened)
  /\ cli_pc' = "loop"
  /\ UNCHANGED <<sims, sims_pre, any_running, prog>>
  /\ UNCHANGED <<csv_vars, rule_vars, fn_vars, args_vars>>
  /\ UNCHANGED batch_vars
  /\ UNCHANGED sim_vars
  /\ UNCHANGED gui_vars

\* main.cpp lines 97-120: one pass of while (any_running)
CliRound ==
  /\ cli_pc = "loop"
  /\ any_running
  /\ \E st \in {cli_round(CliState, IndexOrder(Len(sims)))} :
       /\ sims' = st.sims
       /\ csvs' = st.csvs
       /\ any_running' = st.any_running
  /\ sims_pre' = sims
  /\ UNCHANGED <<cli_pc, prog>>
  /\ UNCHANGED <<csv_vars, rule_vars, fn_vars, args_vars>>
  /\ UNCHANGED batch_vars
  /\ UNCHANGED sim_vars
  /\ UNCHANGED gui_vars

InitCli ==
  /\ InitBatchVars
  /\ InitSimVars(DefaultConfig)
  /\ InitGuiVars
  /\ prog = "cli"
  /\ InitCsvVars(TRUE)
  /\ InitRuleVars(TeaLeaf)
  /\ InitFnVars(TeaLeaf, 0)
  /\ InitArgsVars(<<"tea_factory_simulator_cli">>)
  /\ \E config \in CliConfigs, batches \in 1..MaxBatches :
       InitCliVars(config, batches)

NextCli == CliOpenCsv \/ CliRound

SpecCli == InitCli /\ [][NextCli]_vars

(***************************************************************************)
(* A CsvWriter on its own, as tests/test_csvwriter.cpp and the drivers use *)
(* it: any sequence of write_header and write_row calls.                   *)
(***************************************************************************)
\* the rows handed to write_row: stage, elapsed seconds and leaf
CsvRows ==
  { <<"STEAMING", 1, TeaLeaf>>,
    <<"ROLLING", 31, [moisture |-> 700000, temperature_c |-> 80000,
                      aroma |-> 40000, color |-> 20000]>>,
    <<"DRYING", 120, [moisture |-> 50000, temperature_c |-> 60000,
                      aroma |-> 100000, color |-> 100000]>> }

CsvWriteHeader ==
  /\ Len(csv_log) < MaxCsvCalls
  /\ csv' = CsvWriter_write_header(csv)
  /\ csv_log' = Append(csv_log, [op |-> "write_header"])
  /\ UNCHANGED <<prog, cli_vars, rule_vars, fn_vars, args_vars>>
  /\ UNCHANGED batch_vars
  /\ UNCHANGED sim_vars
  /\ UNCHANGED gui_vars

CsvWriteRow ==
  /\ Len(csv_log) < MaxCsvCalls
  /\ \E row \in CsvRows :
       /\ csv' = CsvWriter_write_row(csv, row[1], row[2], row[3].moisture,
                                     row[3].temperature_c, row[3].aroma,
                                     row[3].color)
       /\ csv_log' = Append(csv_log, [op |-> "write_row", row |-> row])
  /\ UNCHANGED <<prog, cli_vars, rule_vars, fn_vars, args_vars>>
  /\ UNCHANGED batch_vars
  /\ UNCHANGED sim_vars
  /\ UNCHANGED gui_vars

InitCsv ==
  /\ InitBatchVars
  /\ InitSimVars(DefaultConfig)
  /\ InitGuiVars
  /\ InitCliVars(DefaultConfig, 1)
  /\ InitRuleVars(TeaLeaf)
  /\ InitFnVars(TeaLeaf, 0)
  /\ InitArgsVars(<<"tea_factory_simulator_cli">>)
  /\ prog = "csv"
  /\ \E is_open \in BOOLEAN : InitCsvVars(is_open)

NextCsv == CsvWriteHeader \/ CsvWriteRow

SpecCsv == InitCsv /\ [][NextCsv]_vars

\* the two drivers that hold several batches, each run on its own
InitDrivers == InitGui \/ InitCli

NextDrivers ==
  \/ prog = "gui" /\ NextGui
  \/ prog = "cli" /\ NextCli

SpecDrivers == InitDrivers /\ [][NextDrivers]_vars

(***************************************************************************)
(* The stage rules called directly on a leaf, as tests/test_processes.cpp  *)
(* does: any rule of any profile, with any step size.                      *)
(***************************************************************************)
\* the leaves the rules are handed: the default leaf, the two corners of
\* the ranges, and a leaf outside them
RuleLeaves ==
  { TeaLeaf,
    [moisture |-> 0, temperature_c |-> 0, aroma |-> 0, color |-> 0],
    [moisture |-> 1000000, temperature_c |-> 95000, aroma |-> 100000,
     color |-> 100000],
    [moisture |-> 1200000, temperature_c |-> -10000, aroma |-> 120000,
     color |-> -5000] }

\* the step sizes, in seconds
RuleDts == {-1, 0, 1, 30, 60}

RuleStates == {"STEAMING", "ROLLING", "DRYING"}

RuleApplyStep ==
  /\ rule_calls < MaxRuleCalls
  /\ \E state \in RuleStates, model \in ModelType, dt \in RuleDts :
       /\ rule_leaf' = apply_step(state, StageParams(make_model(model), state),
                                  rule_leaf, dt)
       /\ rule_op' = [state |-> state, model |-> model, dt |-> dt]
  /\ rule_pre' = rule_leaf
  /\ rule_calls' = rule_calls + 1
  /\ UNCHANGED <<prog, cli_vars, csv_vars, fn_vars, args_vars>>
  /\ UNCHANGED batch_vars
  /\ UNCHANGED sim_vars
  /\ UNCHANGED gui_vars

InitRule ==
  /\ InitBatchVars
  /\ InitSimVars(DefaultConfig)
  /\ InitGuiVars
  /\ InitCliVars(DefaultConfig, 1)
  /\ InitCsvVars(TRUE)
  /\ InitFnVars(TeaLeaf, 0)
  /\ InitArgsVars(<<"tea_factory_simulator_cli">>)
  /\ prog = "rule"
  /\ \E leaf \in RuleLeaves : InitRuleVars(leaf)

\* every holder of a leaf: the batch, the simulator, the rules on their own
InitLeaf == InitBatch \/ InitSim \/ InitRule

NextLeaf ==
  \/ prog = "batch" /\ NextBatch
  \/ prog = "sim" /\ NextSimAny
  \/ prog = "rule" /\ RuleApplyStep

SpecLeaf == InitLeaf /\ [][NextLeaf]_vars

(***************************************************************************)
(* The free functions called on their own, as tests/test_tealeaf.cpp and   *)
(* tests/test_csvwriter.cpp do: normalize on a leaf, quality_score on the  *)
(* three values of a leaf, quality_status on a score.                      *)
(***************************************************************************)
\* the values of the arguments: below, at, inside, at and above the ranges
FnMoistures == {-500000, 0, 750000, 1000000, 2000000}

FnTemperatures == {-273150, 25000, 1000000}

FnAromas == {-1000000, 0, 10000, 100000, 1000000}

FnColors == {-1000000, 10000, 100000, 1000000}

FnLeaves ==
  { [moisture |-> m, temperature_c |-> t, aroma |-> a, color |-> c] :
      m \in FnMoistures, t \in FnTemperatures, a \in FnAromas,
      c \in FnColors }

\* scores around the two thresholds and at the ends of the scale
FnScores == {0, 59999, 60000, 60001, 79999, 80000, 80001, 100000}

FnNormalize ==
  /\ fn_out' = [op |-> "normalize", leaf |-> normalize(fn_in.leaf)]
  /\ UNCHANGED <<fn_in, prog, cli_vars, csv_vars, rule_vars, args_vars>>
  /\ UNCHANGED batch_vars
  /\ UNCHANGED sim_vars
  /\ UNCHANGED gui_vars

FnQualityScore ==
  /\ fn_out' = [op |-> "quality_score",
                score |-> CsvWriter_quality_score(
                            fn_in.leaf.moisture, fn_in.leaf.aroma,
                            fn_in.leaf.color)]
  /\ UNCHANGED <<fn_in, prog, cli_vars, csv_vars, rule_vars, args_vars>>
  /\ UNCHANGED batch_vars
  /\ UNCHANGED sim_vars
  /\ UNCHANGED gui_vars

FnQualityStatus ==
  /\ fn_out' = [op |-> "quality_status",
                status |-> CsvWriter_quality_status(fn_in.score)]
  /\ UNCHANGED <<fn_in, prog, cli_vars, csv_vars, rule_vars, args_vars>>
  /\ UNCHANGED batch_vars
  /\ UNCHANGED sim_vars
  /\ UNCHANGED gui_vars

InitFn ==
  /\ InitBatchVars
  /\ InitSimVars(DefaultConfig)
  /\ InitGuiVars
  /\ InitCliVars(DefaultConfig, 1)
  /\ InitCsvVars(TRUE)
  /\ InitRuleVars(TeaLeaf)
  /\ InitArgsVars(<<"tea_factory_simulator_cli">>)
  /\ prog = "fn"
  /\ \E leaf \in FnLeaves, score \in FnScores : InitFnVars(leaf, score)

FnMakeModel ==
  /\ \E type \in ModelType :
       fn_out' = [op |-> "make_model", type |-> type,
                  params |-> make_model(type)]
  /\ UNCHANGED <<fn_in, prog, cli_vars, csv_vars, rule_vars, args_vars>>
  /\ UNCHANGED batch_vars
  /\ UNCHANGED sim_vars
  /\ UNCHANGED gui_vars

NextFn == FnNormalize \/ FnQualityScore \/ FnQualityStatus \/ FnMakeModel

SpecFn == InitFn /\ [][NextFn]_vars

\* the quality functions on their own and the accessors of the batch
InitQuality == InitFn \/ InitBatch

NextQuality ==
  \/ prog = "fn" /\ NextFn
  \/ prog = "batch" /\ NextBatch

SpecQuality == InitQuality /\ [][NextQuality]_vars

\* the users of a CsvWriter: calls made on it directly, and the driver
InitWriters == InitCsv \/ InitCli

NextWriters ==
  \/ prog = "csv" /\ NextCsv
  \/ prog = "cli" /\ NextCli

SpecWriters == InitWriters /\ [][NextWriters]_vars

(***************************************************************************)
(* The argument parser: parse_args called once on a command line.          *)
(***************************************************************************)
ArgTokens ==
  {"-h", "--help", "--no-csv", "--dt", "--steaming", "--rolling", "--drying",
   "--csv", "--model", "--batches", "--unknown",
   "", "0", "1", "120", "128", "129", "86400", "86401", "-5", "+7", "12x",
   "gentle", "invalid"}

\* the command line of n arguments t after argv[0]
CommandLine(t) == <<"tea_factory_simulator_cli">> \o t

ArgsParse ==
  /\ cmd_out.op = "none"
  /\ cmd_out' = [op |-> "parse_args", args |-> parse_args(cmdline)]
  /\ UNCHANGED <<cmdline, prog, cli_vars, csv_vars, rule_vars, fn_vars>>
  /\ UNCHANGED batch_vars
  /\ UNCHANGED sim_vars
  /\ UNCHANGED gui_vars

InitArgs ==
  /\ InitBatchVars
  /\ InitSimVars(DefaultConfig)
  /\ InitGuiVars
  /\ InitCliVars(DefaultConfig, 1)
  /\ InitCsvVars(TRUE)
  /\ InitRuleVars(TeaLeaf)
  /\ InitFnVars(TeaLeaf, 0)
  /\ prog = "args"
  /\ \E n \in 0..MaxArgs :
       \E t \in [1..n -> ArgTokens] : InitArgsVars(CommandLine(t))

NextArgs == ArgsParse

SpecArgs == InitArgs /\ [][NextArgs]_vars

(***************************************************************************)
(* Vocabulary of the properties.                                           *)
(***************************************************************************)
RECURSIVE PrefixSum(_, _)
PrefixSum(seq, n) == IF n = 0 THEN 0 ELSE PrefixSum(seq, n - 1) + seq[n]

SumSeq(seq) == PrefixSum(seq, Len(seq))

\* a fresh batch of profile k: constructed, or reset, with profile k applied
Fresh(k) == TeaBatch_reset(TeaBatch_set_model(TeaBatch, k))

\* the batch a single update call with the whole time delivered so far
\* produces from a fresh batch of the same profile
Single == TeaBatch_update(Fresh(batch.model_), SumSeq(deltas))

\* the state vector, and what a caller can read of the sequencing
StateVector(b) == b.leaf_

Observed(b) == <<process(b), elapsed_seconds(b), b.leaf_>>

\* only update calls, each of a positive whole number of seconds, since the
\* batch was fresh
WholeRun ==
  /\ fresh_run
  /\ deltas # << >>
  /\ \A i \in 1..Len(deltas) : deltas[i] > 0 /\ deltas[i] % Sub = 0

\* the ends of the stages in total elapsed seconds, in ticks
Boundaries == {30 * Sub, 60 * Sub, 120 * Sub}

\* the calls are split exactly at each stage boundary the total crosses
BoundarySplit(seq) ==
  /\ Len(seq) >= 2
  /\ \A i \in 1..(Len(seq) - 1) : PrefixSum(seq, i) \in Boundaries
  /\ \A bnd \in Boundaries :
       bnd < SumSeq(seq) => \E i \in 1..(Len(seq) - 1) : PrefixSum(seq, i) = bnd

(***************************************************************************)
(* C1: for a fresh batch and any split of a whole-second total T into     *)
(* positive whole-second parts, the sequence of update calls ends with the *)
(* same state vector as one update(T), also when the parts split the time  *)
(* inside a single stage (update(2) against update(1) twice).              *)
(***************************************************************************)
C1_SplitInvariance == WholeRun => StateVector(batch) = StateVector(Single)

(***************************************************************************)
(* C2: one update whose whole-second delta crosses stage boundaries gives  *)
(* the same stage, elapsed seconds and state vector as the same time       *)
(* delivered in calls split exactly at each boundary; update(31) leaves    *)
(* the batch in ROLLING, one second into it.                               *)
(***************************************************************************)
C2_BoundaryCarryover ==
  /\ (WholeRun /\ BoundarySplit(deltas)) => Observed(batch) = Observed(Single)
  /\ (WholeRun /\ deltas = << 30 * Sub, Sub >>) =>
       /\ process(Single) = "ROLLING"
       /\ Single.stage_elapsed_seconds_ = 1
       /\ elapsed_seconds(Single) = 31

\* update(30), update(30), update(1) against update(61)
C2_Witness ==
  /\ WholeRun
  /\ deltas = << 30 * Sub, 30 * Sub, Sub >>
  /\ BoundarySplit(deltas)
  /\ process(batch) = "DRYING"
  /\ elapsed_seconds(batch) = 61

(***************************************************************************)
(* C4: FINISHED is terminal: once process() is FINISHED, no operation      *)
(* other than reset() makes it return an earlier stage; set_model() on a   *)
(* FINISHED batch leaves it FINISHED and no later update applies a rule.   *)
(***************************************************************************)
C4_FinishedTerminal ==
  (process(batch_pre) = "FINISHED" /\ last_op.op # "reset") =>
    /\ process(batch) = "FINISHED"
    /\ batch.applied_ = batch_pre.applied_

(***************************************************************************)
(* C5: once the batch is FINISHED, a further update(delta), whatever the   *)
(* delta, leaves the state vector, elapsed_seconds(), the quality score    *)
(* and the quality status unchanged; update(125) and update(120) followed  *)
(* by update(5) both end FINISHED with elapsed 120 and the same state.     *)
(***************************************************************************)
C5_TerminalIdempotence ==
  /\ (last_op.op = "update" /\ process(batch_pre) = "FINISHED") =>
       /\ StateVector(batch) = StateVector(batch_pre)
       /\ elapsed_seconds(batch) = elapsed_seconds(batch_pre)
       /\ quality_score(batch) = quality_score(batch_pre)
       /\ quality_status(batch) = quality_status(batch_pre)
       /\ process(batch) = "FINISHED"
  /\ (fresh_run /\ deltas \in { << 125 * Sub >>, << 120 * Sub, 5 * Sub >> }) =>
       /\ process(batch) = "FINISHED"
       /\ elapsed_seconds(batch) = 120
       /\ StateVector(batch)
            = StateVector(TeaBatch_update(Fresh(batch.model_), 120 * Sub))

\* update(120) then update(5): the second call finds the batch FINISHED
C5_Witness ==
  /\ fresh_run
  /\ deltas = << 120 * Sub, 5 * Sub >>
  /\ last_op = [op |-> "update", arg |-> 5 * Sub]
  /\ process(batch_pre) = "FINISHED"
  /\ elapsed_seconds(batch) = 120

(***************************************************************************)
(* Vocabulary of the properties of tea::Simulator.                         *)
(***************************************************************************)
\* the last step call returned false
ReturnedFalse == sim_last.called /\ ~sim_last.ret

\* the sum of the three stage durations
TotalDuration(s) ==
  s.config_.steaming_seconds + s.config_.rolling_seconds
    + s.config_.drying_seconds

Rank(state) ==
  CASE state = "STEAMING" -> 0
    [] state = "ROLLING" -> 1
    [] state = "DRYING" -> 2
    [] state = "FINISHED" -> 3

\* the configured duration of the stage whose rule is rule
ConfiguredSeconds(s, rule) ==
  CASE rule = "STEAMING" -> s.config_.steaming_seconds
    [] rule = "ROLLING" -> s.config_.rolling_seconds
    [] rule = "DRYING" -> s.config_.drying_seconds

\* the seconds the first n step calls applied with the rule rule
RECURSIVE AppliedSeconds(_, _, _)
AppliedSeconds(log, n, rule) ==
  IF n = 0 THEN 0
  ELSE AppliedSeconds(log, n - 1, rule)
         + SumSeq([j \in 1..Len(log[n].applied) |->
                     IF log[n].applied[j].rule = rule
                     THEN log[n].applied[j].seconds ELSE 0])

(***************************************************************************)
(* C3: step called with dt_seconds <= 0 returns false and mutates nothing: *)
(* elapsed_seconds, the leaf, the stage index and the stage's remaining    *)
(* seconds are as before the call.                                         *)
(***************************************************************************)
C3_NonPositiveRejected ==
  (sim_last.called /\ sim_last.dt <= 0) =>
    /\ sim_last.ret = FALSE
    /\ sim.elapsed_seconds_ = sim_pre.elapsed_seconds_
    /\ sim.leaf_ = sim_pre.leaf_
    /\ sim.stage_index_ = sim_pre.stage_index_
    /\ sim.stage_remaining_seconds_ = sim_pre.stage_remaining_seconds_

(***************************************************************************)
(* C6: driven by step(dt) with dt > 0 and stage durations >= 1, the stage  *)
(* current_process() reports only moves forward in the order STEAMING,     *)
(* ROLLING, DRYING, FINISHED: the first stage seen is STEAMING, each step  *)
(* reports the stage of the step before or the next one, and by the time   *)
(* step returns false each of STEAMING, ROLLING and DRYING was seen.       *)
(***************************************************************************)
C6_StageOrder ==
  /\ Len(sim_log) >= 1 => sim_log[1].seen = "STEAMING"
  /\ \A i \in 1..(Len(sim_log) - 1) :
       /\ Rank(sim_log[i].seen) <= Rank(sim_log[i + 1].seen)
       /\ Rank(sim_log[i + 1].seen) <= Rank(sim_log[i].seen) + 1
  /\ Len(sim_log) >= 1 =>
       Rank(sim_log[Len(sim_log)].seen) <= Rank(current_process(sim))
  /\ ReturnedFalse =>
       {"STEAMING", "ROLLING", "DRYING"}
         \subseteq {sim_log[i].seen : i \in 1..Len(sim_log)}

\* a completed run in which every stage took more than one step
C6_Witness ==
  /\ ReturnedFalse
  /\ \A rule \in {"STEAMING", "ROLLING", "DRYING"} :
       Cardinality({i \in 1..Len(sim_log) : sim_log[i].seen = rule}) >= 2

(***************************************************************************)
(* C7: for every dt_seconds > 0 and all positive stage durations, calling  *)
(* step repeatedly eventually returns false, and when it does              *)
(* elapsed_seconds() is exactly the sum of the three durations.            *)
(***************************************************************************)
C7_Terminates ==
  /\ <>ReturnedFalse
  /\ [](ReturnedFalse => sim.elapsed_seconds_ = TotalDuration(sim))

\* a completed run whose dt_seconds exceeds one stage and does not divide
\* another, so that steps were cut short
C7_Witness ==
  /\ ReturnedFalse
  /\ sim.elapsed_seconds_ = TotalDuration(sim)
  /\ sim.config_.dt_seconds > sim.config_.drying_seconds
  /\ sim.config_.steaming_seconds % sim.config_.dt_seconds # 0
  /\ sim.config_.steaming_seconds > sim.config_.dt_seconds

(***************************************************************************)
(* C8: after the simulator has completed all stages (step has returned     *)
(* false), current_process() returns FINISHED.                             *)
(***************************************************************************)
C8_FinishedReported == ReturnedFalse => current_process(sim) = "FINISHED"

(***************************************************************************)
(* C9: each step call applies the rule of exactly one stage, for           *)
(* min(dt_seconds, remaining seconds of that stage) seconds; the seconds   *)
(* applied with a stage's rule never exceed that stage's duration and,     *)
(* over a complete run, add up to exactly that duration.                   *)
(***************************************************************************)
C9_OneStagePerStep ==
  /\ \A i \in 1..Len(sim_log) :
       /\ Len(sim_log[i].applied) = 1
       /\ sim_log[i].applied[1].seconds
            = Min(sim_log[i].dt, sim_log[i].applied[1].budget)
       /\ sim_log[i].applied[1].rule = sim_log[i].seen
  /\ \A rule \in {"STEAMING", "ROLLING", "DRYING"} :
       /\ AppliedSeconds(sim_log, Len(sim_log), rule)
            <= ConfiguredSeconds(sim, rule)
       /\ ReturnedFalse =>
            AppliedSeconds(sim_log, Len(sim_log), rule)
              = ConfiguredSeconds(sim, rule)

\* a step whose dt_seconds was larger than what was left of its stage
C9_Witness ==
  /\ ReturnedFalse
  /\ \E i \in 1..Len(sim_log) :
       /\ sim_log[i].applied[1].seconds < sim_log[i].dt
       /\ sim_log[i].applied[1].rule = "ROLLING"

(***************************************************************************)
(* C10: a step call with dt_seconds > 0 that returns true increases        *)
(* elapsed_seconds() by at least 1 and at most dt_seconds, and             *)
(* elapsed_seconds() never exceeds the sum of the three stage durations.   *)
(***************************************************************************)
C10_ElapsedBounds ==
  /\ (sim_last.called /\ sim_last.ret /\ sim_last.dt > 0) =>
       /\ sim.elapsed_seconds_ - sim_pre.elapsed_seconds_ >= 1
       /\ sim.elapsed_seconds_ - sim_pre.elapsed_seconds_ <= sim_last.dt
  /\ sim.elapsed_seconds_ <= TotalDuration(sim)

\* a step that was cut short by the end of its stage
C10_Witness ==
  /\ sim_last.called
  /\ sim_last.ret
  /\ sim.elapsed_seconds_ - sim_pre.elapsed_seconds_ < sim_last.dt
  /\ sim.elapsed_seconds_ - sim_pre.elapsed_seconds_ >= 1

(***************************************************************************)
(* C11: once step has returned false because the sequence completed,       *)
(* every further step call with dt_seconds > 0 returns false too and       *)
(* leaves the leaf, elapsed_seconds() and the reported stage unchanged.    *)
(***************************************************************************)
C11_CompletedStaysCompleted ==
  (sim_last.called /\ sim_last.after_false /\ sim_last.dt > 0) =>
    /\ sim_last.ret = FALSE
    /\ sim.leaf_ = sim_pre.leaf_
    /\ sim.elapsed_seconds_ = sim_pre.elapsed_seconds_
    /\ current_process(sim) = current_process(sim_pre)

\* a step call made on a simulator whose run had already ended
C11_Witness ==
  /\ sim_last.called
  /\ sim_last.after_false
  /\ sim_last.dt > 0
  /\ sim_pre.stage_index_ >= Len(sim_pre.stages_)
  /\ sim_pre.elapsed_seconds_ = TotalDuration(sim_pre)

(***************************************************************************)
(* C12: for a fresh batch, elapsed_seconds() and process() after update    *)
(* calls with positive whole-second deltas depend only on the sum of the   *)
(* deltas, not on how the sum is split into calls.                         *)
(***************************************************************************)
C12_SequencingBySum ==
  WholeRun =>
    /\ elapsed_seconds(batch) = elapsed_seconds(Single)
    /\ process(batch) = process(Single)

\* calls that end inside stages and cross a boundary in between
C12_Witness ==
  /\ WholeRun
  /\ Len(deltas) >= 2
  /\ \A i \in 1..(Len(deltas) - 1) : PrefixSum(deltas, i) \notin Boundaries
  /\ process(batch) = "DRYING"
  /\ batch.stage_elapsed_seconds_ > 0

(***************************************************************************)
(* C13: update accumulates sub-second deltas: a whole-second tick is       *)
(* applied exactly when the accumulated time reaches a whole second, the   *)
(* fractional remainder being carried to the next call, so that ten        *)
(* update(0.1) calls on a fresh batch give the same elapsed seconds, stage *)
(* and state vector as one update(1.0).                                    *)
(***************************************************************************)
C13_FractionalAccumulation ==
  /\ (fresh_run /\ \A i \in 1..Len(deltas) : deltas[i] \in FracDeltas) =>
       elapsed_seconds(batch) = SumSeq(deltas) \div Sub
  /\ (fresh_run /\ deltas = [i \in 1..10 |-> 1]) =>
       Observed(batch) = Observed(TeaBatch_update(Fresh(batch.model_), Sub))

(***************************************************************************)
(* C14: in every state reached from a fresh or reset batch by update       *)
(* calls, however large the deltas, elapsed_seconds() is at most 120, the  *)
(* sum of the stage durations; the time supplied beyond what reaches       *)
(* FINISHED is discarded.                                                  *)
(***************************************************************************)
C14_NoOverrun ==
  fresh_run =>
    /\ elapsed_seconds(batch) <= 120
    /\ process(batch) = "FINISHED" => elapsed_seconds(batch) = 120

\* more time supplied than the run needs: 125 s, or 120 s and then more
C14_Witness ==
  /\ fresh_run
  /\ deltas # << >>
  /\ \A i \in 1..Len(deltas) : deltas[i] > 0
  /\ SumSeq(deltas) > 120 * Sub
  /\ elapsed_seconds(batch) = 120

(***************************************************************************)
(* C15: between two resets the batch commits its final quality score       *)
(* exactly once, in the update call in which it first becomes FINISHED;    *)
(* the committed value is the score of the state vector at that instant,   *)
(* and whenever process() is FINISHED the committed score is present and   *)
(* equal to the score of the current state vector.                         *)
(***************************************************************************)
C15_QualityCommittedOnce ==
  /\ process(batch) = "FINISHED" =>
       /\ batch.has_quality_score_final_
       /\ batch.quality_score_final_ = quality_score(batch)
  /\ (batch.has_quality_score_final_ /\ ~batch_pre.has_quality_score_final_) =>
       /\ last_op.op = "update"
       /\ process(batch_pre) # "FINISHED"
       /\ process(batch) = "FINISHED"
       /\ batch.quality_score_final_ = quality_score(batch)
  /\ (batch_pre.has_quality_score_final_ /\ last_op.op # "reset") =>
       /\ batch.has_quality_score_final_
       /\ batch.quality_score_final_ = batch_pre.quality_score_final_

(***************************************************************************)
(* C16: set_model called while a stage (STEAMING, ROLLING or DRYING) is    *)
(* active leaves the current stage, the seconds elapsed in that stage, the *)
(* total elapsed seconds, the pending sub-second remainder and the state   *)
(* vector unchanged; only the coefficients change, to those of the new     *)
(* profile.                                                                *)
(***************************************************************************)
C16_SetModelFrame ==
  (last_op.op = "set_model" /\ process(batch_pre) # "FINISHED") =>
    /\ process(batch) = process(batch_pre)
    /\ batch.stage_elapsed_seconds_ = batch_pre.stage_elapsed_seconds_
    /\ elapsed_seconds(batch) = elapsed_seconds(batch_pre)
    /\ batch.pending_seconds_ = batch_pre.pending_seconds_
    /\ StateVector(batch) = StateVector(batch_pre)
    /\ batch.has_quality_score_final_ = batch_pre.has_quality_score_final_
    /\ batch.model_ = last_op.arg
    /\ batch.current_process_handler_.params
         = StageParams(make_model(last_op.arg), process(batch))

\* a profile switched one second into ROLLING, with half a second pending
C16_Witness ==
  /\ last_op.op = "set_model"
  /\ last_op.arg # batch_pre.model_
  /\ process(batch_pre) = "ROLLING"
  /\ batch_pre.stage_elapsed_seconds_ = 1
  /\ batch_pre.pending_seconds_ = Tenth(5)
  /\ process(batch) = "ROLLING"

(***************************************************************************)
(* C17: after set_model(k) in the middle of a run, every rule application  *)
(* made by the later update calls, for the rest of the active stage and    *)
(* for every following stage, uses the coefficients of profile k and none  *)
(* uses the previous profile's.                                            *)
(***************************************************************************)
C17_NewProfileApplies ==
  last_op.op = "update" =>
    \A i \in (Len(batch_pre.applied_) + 1)..Len(batch.applied_) :
      batch.applied_[i].params
        = StageParams(make_model(batch.model_), batch.applied_[i].state)

\* a run begun with one profile, switched inside STEAMING, and continued
\* across the boundary into ROLLING by one update call
C17_Witness ==
  /\ last_op.op = "update"
  /\ Len(batch.applied_) = 3
  /\ Len(batch_pre.applied_) = 1
  /\ batch.applied_[1].params # batch.applied_[2].params
  /\ batch.applied_[1].state = "STEAMING"
  /\ batch.applied_[2].state = "STEAMING"
  /\ batch.applied_[3].state = "ROLLING"
  /\ batch.applied_[2].params = make_model(batch.model_).steaming

(***************************************************************************)
(* Vocabulary of the properties of tea_gui::Simulator.                     *)
(***************************************************************************)
\* at least one batch of the controller is not FINISHED
AnyActive(g) ==
  \E i \in 1..Len(g.batches_) : process(g.batches_[i]) # "FINISHED"

(***************************************************************************)
(* C18: after an update call made while running, is_running() is true if   *)
(* and only if at least one batch is still not FINISHED; when the last     *)
(* batch reaches FINISHED during the call, running becomes false in that   *)
(* same call.                                                              *)
(***************************************************************************)
C18_AutoStop ==
  (gui_op.op = "update" /\ is_running(gui_pre)) =>
    (is_running(gui) <=> AnyActive(gui))

\* the update call in which two running batches reach FINISHED
C18_Witness ==
  /\ gui_op.op = "update"
  /\ is_running(gui_pre)
  /\ AnyActive(gui_pre)
  /\ ~AnyActive(gui)
  /\ ~is_running(gui)
  /\ batch_count(gui) = 2

\* the batches as a caller can read them: stage, elapsed seconds, pending
\* remainder and state vector of each
BatchViews(g) ==
  [i \in 1..Len(g.batches_) |->
     <<process(g.batches_[i]), elapsed_seconds(g.batches_[i]),
       g.batches_[i].stage_elapsed_seconds_, g.batches_[i].pending_seconds_,
       StateVector(g.batches_[i])>>]

(***************************************************************************)
(* C19: pause() always results in is_running() = false and changes no      *)
(* batch; while not running, an update(delta) call leaves every batch's    *)
(* stage, elapsed seconds, pending remainder and state vector unchanged,   *)
(* so the time that passes while paused is never applied after a later     *)
(* start().                                                                *)
(***************************************************************************)
C19_PausedTimeIsDropped ==
  /\ gui_op.op = "pause" =>
       /\ ~is_running(gui)
       /\ gui.batches_ = gui_pre.batches_
  /\ (gui_op.op = "update" /\ ~is_running(gui_pre)) =>
       /\ BatchViews(gui) = BatchViews(gui_pre)
       /\ ~is_running(gui)
  /\ (gui_op.op = "start" /\ ~is_running(gui_pre)) =>
       BatchViews(gui) = BatchViews(gui_pre)

\* an update call that reaches a controller paused in the middle of a run
C19_Witness ==
  /\ gui_op.op = "update"
  /\ gui_op.arg > 0
  /\ ~is_running(gui_pre)
  /\ elapsed_seconds(GuiSimulator_batch(gui_pre)) > 0
  /\ process(GuiSimulator_batch(gui_pre)) = "ROLLING"
  /\ GuiSimulator_batch(gui_pre).pending_seconds_ # Zero

(***************************************************************************)
(* C20: start() sets running to true exactly when the primary batch is not *)
(* FINISHED; when the primary batch is FINISHED, start() leaves running    *)
(* false and all batch state unchanged, so a finished run is started again *)
(* only after reset() or a change of profile or of batch count.            *)
(***************************************************************************)
C20_StartUnlessFinished ==
  gui_op.op = "start" =>
    /\ is_running(gui) <=> process(GuiSimulator_batch(gui_pre)) # "FINISHED"
    /\ gui.batches_ = gui_pre.batches_

\* start() called on a run that has finished
C20_Witness ==
  /\ gui_op.op = "start"
  /\ process(GuiSimulator_batch(gui_pre)) = "FINISHED"
  /\ elapsed_seconds(GuiSimulator_batch(gui_pre)) = 120
  /\ ~is_running(gui)

\* batch b is in the initial state of TeaBatch.h's member initialisers, with
\* profile k applied: stage STEAMING, no time elapsed or pending, the initial
\* leaf, no committed score, the coefficients of k
InitialBatch(b, k) ==
  /\ process(b) = "STEAMING"
  /\ elapsed_seconds(b) = 0
  /\ b.stage_elapsed_seconds_ = 0
  /\ b.pending_seconds_ = Zero
  /\ b.leaf_ = [moisture |-> 750000, temperature_c |-> 25000,
                aroma |-> 10000, color |-> 10000]
  /\ ~b.has_quality_score_final_
  /\ b.model_ = k
  /\ b.model_params_ = make_model(k)
  /\ b.current_process_handler_.params = make_model(k).steaming

(***************************************************************************)
(* C21: from any reachable state (running, paused or FINISHED), reset()    *)
(* sets running to false and puts every batch into the initial state:      *)
(* stage STEAMING, elapsed 0, no pending remainder, moisture 0.75,         *)
(* temperature 25, aroma 10, color 10, no committed final score, with the  *)
(* controller's current profile applied.                                   *)
(***************************************************************************)
C21_ResetRestoresInitial ==
  gui_op.op = "reset" =>
    /\ ~is_running(gui)
    /\ GuiSimulator_model(gui) = GuiSimulator_model(gui_pre)
    /\ batch_count(gui) = batch_count(gui_pre)
    /\ \A i \in 1..Len(gui.batches_) :
         InitialBatch(gui.batches_[i], GuiSimulator_model(gui_pre))

\* reset() on a finished run of two batches under a profile other than the
\* default, each with its final score committed
C21_Witness ==
  /\ gui_op.op = "reset"
  /\ GuiSimulator_model(gui_pre) # "DEFAULT"
  /\ batch_count(gui_pre) = 2
  /\ \A i \in 1..Len(gui_pre.batches_) :
       /\ process(gui_pre.batches_[i]) = "FINISHED"
       /\ gui_pre.batches_[i].has_quality_score_final_

(***************************************************************************)
(* C22: set_model(kind) called while running is a no-op: model() and every *)
(* batch (stage, elapsed, state vector, coefficients) are unchanged;       *)
(* called while not running it sets model() to kind and resets every batch *)
(* to the initial state with that profile.                                 *)
(***************************************************************************)
C22_SetModelOnlyWhenStopped ==
  gui_op.op = "set_model" =>
    IF is_running(gui_pre)
    THEN gui = gui_pre
    ELSE /\ GuiSimulator_model(gui) = gui_op.arg
         /\ ~is_running(gui)
         /\ batch_count(gui) = batch_count(gui_pre)
         /\ \A i \in 1..Len(gui.batches_) :
              InitialBatch(gui.batches_[i], gui_op.arg)

\* set_model with another profile, called in the middle of a running stage
C22_Witness ==
  /\ gui_op.op = "set_model"
  /\ is_running(gui_pre)
  /\ gui_op.arg # GuiSimulator_model(gui_pre)
  /\ process(GuiSimulator_batch(gui_pre)) = "ROLLING"
  /\ gui = gui_pre

\* the orders in which n batches can be visited
Orders(n) ==
  { order \in [1..n -> 1..n] :
      \A i, j \in 1..n : i # j => order[i] # order[j] }

\* the loop of Simulator::update (Simulator.cpp lines 99-106) as a walk over
\* the batches in a given order; st holds the batches and any_active
GuiVisit(st, i, delta) ==
  LET b == GuiSimulator_update_batch(st.batches[i], delta)
  IN  [batches |-> [st.batches EXCEPT ![i] = b],
       any_active |-> st.any_active \/ process(b) # "FINISHED"]

RECURSIVE GuiVisitAll(_, _, _)
GuiVisitAll(st, order, delta) ==
  IF order = << >> THEN st
  ELSE GuiVisitAll(GuiVisit(st, Head(order), delta), Tail(order), delta)

\* the driver's state before the last round
CliStatePre ==
  [sims |-> sims_pre, csvs |-> csvs, any_running |-> FALSE]

(***************************************************************************)
(* C23: batches do not interfere.  In tea_gui::Simulator::update and in    *)
(* the command-line driver's multi-batch stepping loop, updating one batch *)
(* never changes another batch's state, and the resulting state of every   *)
(* batch is the same for every order in which the batches are visited      *)
(* within one call or round.                                               *)
(***************************************************************************)
C23_BatchesIndependent ==
  /\ (prog = "gui" /\ gui_op.op = "update" /\ is_running(gui_pre)) =>
       LET n == Len(gui_pre.batches_)
           st0 == [batches |-> gui_pre.batches_, any_active |-> FALSE]
       IN  /\ \A i, j \in 1..n :
                i # j =>
                  GuiVisit(st0, i, gui_op.arg).batches[j] = st0.batches[j]
           /\ \A order \in Orders(n) :
                /\ GuiVisitAll(st0, order, gui_op.arg).batches = gui.batches_
                /\ GuiVisitAll(st0, order, gui_op.arg).any_active
                     = is_running(gui)
  /\ (prog = "cli" /\ cli_pc = "loop" /\ sims # sims_pre) =>
       LET n == Len(sims_pre)
           dt == sims_pre[1].config_.dt_seconds
       IN  /\ \A i, j \in 1..n :
                i # j =>
                  cli_visit(CliStatePre, i, dt).sims[j] = sims_pre[j]
           /\ \A order \in Orders(n) :
                /\ cli_round(CliStatePre, order).sims = sims
                /\ cli_round(CliStatePre, order).any_running = any_running

\* a round of the command-line driver over two batches whose leaves differ
\* and of which one crosses a stage boundary
C23_Witness ==
  /\ prog = "cli"
  /\ cli_pc = "loop"
  /\ Len(sims) = 2
  /\ sims[1].leaf_ # sims[2].leaf_
  /\ sims[1].leaf_ # sims_pre[1].leaf_
  /\ sims[2].leaf_ # sims_pre[2].leaf_
  /\ sims[1].stage_index_ # sims_pre[1].stage_index_

(***************************************************************************)
(* C24: TeaBatch::update called with a delta <= 0 changes nothing: the     *)
(* state vector, the stage, elapsed_seconds() and the accumulated          *)
(* sub-second remainder are the same as before the call.                   *)
(***************************************************************************)
C24_NonPositiveDeltaIsNoOp ==
  (last_op.op = "update" /\ last_op.arg <= 0) =>
    /\ StateVector(batch) = StateVector(batch_pre)
    /\ process(batch) = process(batch_pre)
    /\ elapsed_seconds(batch) = elapsed_seconds(batch_pre)
    /\ batch.stage_elapsed_seconds_ = batch_pre.stage_elapsed_seconds_
    /\ batch.pending_seconds_ = batch_pre.pending_seconds_

\* update with a negative delta on a batch in the middle of ROLLING that
\* holds a sub-second remainder
C24_Witness ==
  /\ last_op.op = "update"
  /\ last_op.arg < 0
  /\ process(batch_pre) = "ROLLING"
  /\ elapsed_seconds(batch_pre) > 30
  /\ batch_pre.pending_seconds_ # Zero

\* the write_row calls made on the writer so far, in call order
RowCalls == SelectSeq(csv_log, LAMBDA c : c.op = "write_row")

\* the write_header calls made explicitly so far
HeaderCalls == SelectSeq(csv_log, LAMBDA c : c.op = "write_header")

\* the line a write_row call is to produce
LineOf(c) ==
  CsvLine(c.row[1], c.row[2], c.row[3].moisture, c.row[3].temperature_c,
          c.row[3].aroma, c.row[3].color)

(***************************************************************************)
(* C25: for any sequence of write_header and write_row calls on an open    *)
(* CsvWriter, the output is exactly one header line, written before the    *)
(* first data row (also when write_header was called twice or never called *)
(* explicitly), followed by exactly one line per write_row call in call    *)
(* order.                                                                  *)
(***************************************************************************)
C25_HeaderOnce ==
  (prog = "csv" /\ csv.is_open /\ csv_log # << >>) =>
    /\ Len(csv.out) = 1 + Len(RowCalls)
    /\ csv.out[1] = HeaderLine
    /\ \A k \in 1..Len(RowCalls) :
         /\ csv.out[k + 1].line = "row"
         /\ csv.out[k + 1] = LineOf(RowCalls[k])

\* write_header called twice, then two different rows written
C25_Witness ==
  /\ prog = "csv"
  /\ csv.is_open
  /\ Len(HeaderCalls) = 2
  /\ Len(RowCalls) = 2
  /\ csv_log[1].op = "write_header"
  /\ csv_log[2].op = "write_header"
  /\ RowCalls[1] # RowCalls[2]

\* the writer wrote nothing and its header flag is still false
Untouched(w) == w.out = << >> /\ ~w.header_written_

(***************************************************************************)
(* C26: when the CsvWriter's file is not open, write_header and write_row  *)
(* write nothing, signal no error and leave the header-written flag false, *)
(* and the simulation step that passed the writer still advances normally. *)
(***************************************************************************)
C26_ClosedWriterIsSkipped ==
  /\ (prog = "csv" /\ ~csv.is_open) => Untouched(csv)
  /\ prog = "cli" =>
       \A i \in 1..Len(sims) :
         (csvs[i] # << >> /\ ~csvs[i][1].is_open) =>
           /\ Untouched(csvs[i][1])
           /\ (cli_pc = "loop" /\ sims # sims_pre) =>
                sims[i] =
                  Simulator_step(sims_pre[i],
                                 sims_pre[i].config_.dt_seconds).sim

\* a round of the driver in which the first batch, whose file could not be
\* opened, has advanced, next to a batch whose file holds its rows
C26_Witness ==
  /\ prog = "cli"
  /\ cli_pc = "loop"
  /\ Len(sims) = 2
  /\ csvs[1] # << >>
  /\ ~csvs[1][1].is_open
  /\ sims[1].elapsed_seconds_ > sims_pre[1].elapsed_seconds_
  /\ sims_pre[1].elapsed_seconds_ > 0
  /\ csvs[2][1].is_open
  /\ Len(csvs[2][1].out) > 2

\* moisture, aroma and color are inside their ranges
InRange(leaf) ==
  /\ 0 <= leaf.moisture /\ leaf.moisture <= 1000000
  /\ 0 <= leaf.aroma /\ leaf.aroma <= 100000
  /\ 0 <= leaf.color /\ leaf.color <= 100000

\* the rate at which the rule of a stage moves the temperature to its target
TemperatureRate(params, state) ==
  CASE state = "STEAMING" -> params.heat_k
    [] state = "ROLLING" -> params.cool_k
    [] state = "DRYING" -> params.temp_k

\* the temperature the last apply_step call computed from rule_pre
RuleTemperature ==
  LET params == StageParams(make_model(rule_op.model), rule_op.state)
  IN  rule_pre.temperature_c
        + MulMicro(params.target_temp_c - rule_pre.temperature_c,
                   TemperatureRate(params, rule_op.state) * rule_op.dt)

(***************************************************************************)
(* C27: after any sequence of stage-rule apply_step calls, Simulator::step *)
(* calls or TeaBatch::update calls, in any stage and with any step size,   *)
(* moisture is in [0, 1], aroma is in [0, 100] and color is in [0, 100];   *)
(* temperature is never clamped.                                           *)
(***************************************************************************)
C27_LeafInRange ==
  /\ InRange(batch.leaf_)
  /\ InRange(sim.leaf_)
  /\ rule_calls > 0 =>
       /\ InRange(rule_leaf)
       /\ rule_leaf.temperature_c = RuleTemperature

\* the drying rule applied to an overheated leaf: the damage takes aroma
\* below 0, where it is cut to 0, and the temperature stays above 100 degrees
C27_Witness ==
  /\ prog = "rule"
  /\ rule_calls > 0
  /\ rule_op.state = "DRYING"
  /\ rule_pre.aroma > 0
  /\ rule_leaf.aroma = 0
  /\ rule_leaf.temperature_c > 100000

\* the value of [lo, hi] nearest to v
Nearest(v, lo, hi) == IF v < lo THEN lo ELSE IF v > hi THEN hi ELSE v

(***************************************************************************)
(* C28: for every input leaf, tea::normalize replaces each of moisture,    *)
(* aroma and color by the nearest value of its range ([0,1], [0,100],      *)
(* [0,100]; unchanged when already inside) and leaves temperature_c        *)
(* unchanged, whatever its value.                                          *)
(***************************************************************************)
C28_NormalizeClamps ==
  fn_out.op = "normalize" =>
    /\ fn_out.leaf.moisture = Nearest(fn_in.leaf.moisture, 0, 1000000)
    /\ fn_out.leaf.aroma = Nearest(fn_in.leaf.aroma, 0, 100000)
    /\ fn_out.leaf.color = Nearest(fn_in.leaf.color, 0, 100000)
    /\ fn_out.leaf.temperature_c = fn_in.leaf.temperature_c

\* normalize on a leaf with moisture above 1, aroma below 0, color above 100
\* and a temperature of 1000 degrees
C28_Witness ==
  /\ fn_out.op = "normalize"
  /\ fn_in.leaf.moisture > 1000000
  /\ fn_in.leaf.aroma < 0
  /\ fn_in.leaf.color > 100000
  /\ fn_in.leaf.temperature_c = 1000000
  /\ fn_out.leaf.temperature_c = 1000000

\* the status of a score, by the thresholds 80 and 60
StatusOf(score) ==
  CASE score >= 80000 -> "GOOD"
    [] 60000 <= score /\ score < 80000 -> "OK"
    [] score < 60000 -> "BAD"

\* the score TeaBatch::quality_status classifies: the committed one on a
\* finished batch that has it, else the one computed from the leaf
ClassifiedScore(b) ==
  IF process(b) = "FINISHED" /\ b.has_quality_score_final_
  THEN b.quality_score_final_
  ELSE quality_score(b)

(***************************************************************************)
(* C29: quality_status(score) is GOOD exactly when score >= 80, OK exactly *)
(* when 60 <= score < 80, and BAD exactly when score < 60; both thresholds *)
(* are inclusive, and exactly one status is returned for every score.      *)
(***************************************************************************)
C29_StatusThresholds ==
  /\ fn_out.op = "quality_status" =>
       /\ fn_out.status \in {"GOOD", "OK", "BAD"}
       /\ fn_out.status = "GOOD" <=> fn_in.score >= 80000
       /\ fn_out.status = "OK" <=>
            (60000 <= fn_in.score /\ fn_in.score < 80000)
       /\ fn_out.status = "BAD" <=> fn_in.score < 60000
  /\ quality_status(batch) = StatusOf(ClassifiedScore(batch))

\* quality_status of exactly 80
C29_Witness ==
  /\ fn_out.op = "quality_status"
  /\ fn_in.score = 80000
  /\ fn_out.status = "GOOD"

\* aroma * 0.4 + color * 0.4 + (1 - moisture) * 100 * 0.2, in millionths.
\* The functions hold the score in thousandths and cut each of the three
\* terms to a thousandth: on the inputs of FnLeaves the terms are whole
\* thousandths and the two agree exactly, on the leaf of a batch they agree
\* to less than three thousandths.
ScoreFormula(moisture, aroma, color) ==
  aroma * 400 + color * 400 + (1000000 - moisture) * 20

(***************************************************************************)
(* C30: quality_score(moisture, aroma, color) equals aroma * 0.4 +         *)
(* color * 0.4 + (1 - moisture) * 100 * 0.2 clamped into [0, 100] for      *)
(* every input, so the result is always within [0, 100]: 0 for extreme low *)
(* inputs and 100 for extreme high inputs.                                 *)
(***************************************************************************)
C30_ScoreFormula ==
  /\ fn_out.op = "quality_score" =>
       LET l == fn_in.leaf
       IN  /\ fn_out.score * 1000
                = Nearest(ScoreFormula(l.moisture, l.aroma, l.color),
                          0, 100000000)
           /\ 0 <= fn_out.score /\ fn_out.score <= 100000
           /\ (l.moisture >= 1000000 /\ l.aroma <= -1000000
                 /\ l.color <= -1000000) => fn_out.score = 0
           /\ (l.moisture <= 0 /\ l.aroma >= 1000000 /\ l.color >= 1000000)
                => fn_out.score = 100000
  /\ LET q == quality_score(batch)
         e == Nearest(ScoreFormula(batch.leaf_.moisture, batch.leaf_.aroma,
                                   batch.leaf_.color), 0, 100000000)
     IN  /\ 0 <= q /\ q <= 100000
         /\ q * 1000 <= e
         /\ e - q * 1000 < 3000

\* quality_score(0.0, 1000.0, 1000.0), where the formula gives 820
C30_Witness ==
  /\ fn_out.op = "quality_score"
  /\ fn_in.leaf.moisture = 0
  /\ fn_in.leaf.aroma = 1000000
  /\ fn_in.leaf.color = 1000000
  /\ fn_out.score = 100000

\* the factor of a profile, in hundredths
FactorOf(type) ==
  CASE type = "DEFAULT" -> 100
    [] type = "GENTLE" -> 75
    [] type = "AGGRESSIVE" -> 125

\* coefficient c is the base coefficient b times k hundredths
Scaled(c, b, k) == c * 100 = b * k

TestedCoefficients(p) ==
  << p.steaming.heat_k, p.steaming.aroma_gain_per_s, p.rolling.cool_k,
     p.rolling.moisture_loss_k, p.drying.dry_k, p.drying.aroma_damage_k >>

(***************************************************************************)
(* C32: for each of heat_k, steaming aroma_gain_per_s, cool_k,             *)
(* moisture_loss_k, dry_k and aroma_damage_k, the value in                 *)
(* make_model(GENTLE) is strictly smaller than in make_model(DEFAULT),     *)
(* which is strictly smaller than in make_model(AGGRESSIVE).               *)
(***************************************************************************)
C32_ProfileOrder ==
  fn_out.op = "make_model" =>
    LET c == TestedCoefficients(fn_out.params)
        d == TestedCoefficients([steaming |-> SteamingParams,
                                 rolling |-> RollingParams,
                                 drying |-> DryingParams])
    IN  \A i \in 1..6 :
          /\ fn_out.type = "GENTLE" => c[i] < d[i]
          /\ fn_out.type = "DEFAULT" => c[i] = d[i]
          /\ fn_out.type = "AGGRESSIVE" => d[i] < c[i]

\* make_model(AGGRESSIVE), with its moisture_loss_k above the base 0.0015
C32_Witness ==
  /\ fn_out.op = "make_model"
  /\ fn_out.type = "AGGRESSIVE"
  /\ fn_out.params.rolling.moisture_loss_k > 1500

\* the arguments of the command line, after the program name
Arguments == Tail(cmdline)

\* arguments that are accepted, as a start of the command line
AcceptedStart ==
  {<< >>, <<"--no-csv">>, <<"--dt", "1">>, <<"--steaming", "86400">>,
   <<"--model", "gentle">>, <<"--batches", "128">>, <<"--csv", "1">>}

\* the arguments the claim names as rejected wherever they are read
RejectedItems ==
  {<<"--dt", "0">>, <<"--batches", "129">>, <<"--model", "invalid">>,
   <<"--unknown">>, <<"--csv", "">>}

\* seq is start followed by item, and then anything
StartsWith(seq, start, item) ==
  /\ Len(seq) >= Len(start) + Len(item)
  /\ SubSeq(seq, 1, Len(start)) = start
  /\ SubSeq(seq, Len(start) + 1, Len(start) + Len(item)) = item

(***************************************************************************)
(* C33: whenever parse_args returns without an error, dt_seconds and each  *)
(* stage duration are in 1..86400, batches is in 1..128 and model is one   *)
(* of default, gentle, aggressive.  A --dt of 0, a --batches of 129, an    *)
(* unknown model name, an unknown flag and an empty --csv path, read after *)
(* accepted arguments, and a flag that ends the command line with its      *)
(* value missing, each yield an error; a dt larger than a stage duration   *)
(* is accepted.  (Arguments after -h or --help are not read.)              *)
(***************************************************************************)
C33_ArgsValidated ==
  cmd_out.op = "parse_args" =>
    LET args == cmd_out.args
    IN  /\ args.error = << >> =>
             /\ args.dt_seconds \in 1..86400
             /\ args.steaming_seconds \in 1..86400
             /\ args.rolling_seconds \in 1..86400
             /\ args.drying_seconds \in 1..86400
             /\ args.batches \in 1..128
             /\ args.model \in {"default", "gentle", "aggressive"}
        /\ \A start \in AcceptedStart :
             /\ \A item \in RejectedItems :
                  StartsWith(Arguments, start, item) => args.error # << >>
             /\ \A a \in ValueFlags :
                  Arguments = start \o <<a>> => args.error # << >>
        /\ Arguments \in {<<"--dt", "120">>, <<"--no-csv", "--dt", "120">>,
                          <<"--dt", "120", "--steaming", "1">>} =>
             /\ args.error = << >>
             /\ args.dt_seconds = 120
             /\ args.dt_seconds > args.steaming_seconds

\* --dt 120 is accepted with the steaming duration left at 30
C33_Witness ==
  /\ cmd_out.op = "parse_args"
  /\ Arguments = <<"--dt", "120">>
  /\ cmd_out.args.error = << >>
  /\ cmd_out.args.dt_seconds = 120
  /\ cmd_out.args.steaming_seconds = 30

\* the stage the default schedule (30 s, 30 s, 60 s) gives a number of
\* elapsed seconds
StageAt(elapsed) ==
  IF elapsed < 30 THEN "STEAMING"
  ELSE IF elapsed < 60 THEN "ROLLING"
  ELSE IF elapsed < 120 THEN "DRYING"
  ELSE "FINISHED"

(***************************************************************************)
(* C34: for a TeaBatch driven only by update calls since construction or   *)
(* reset, the stage is a function of the elapsed seconds: process() is     *)
(* STEAMING iff elapsed_seconds() < 30, ROLLING iff 30 <= elapsed < 60,    *)
(* DRYING iff 60 <= elapsed < 120 and FINISHED iff elapsed = 120; the      *)
(* update call that delivers the last second of a stage also leaves it.    *)
(***************************************************************************)
C34_StageFollowsElapsed ==
  fresh_run =>
    /\ elapsed_seconds(batch) \in 0..120
    /\ process(batch) = StageAt(elapsed_seconds(batch))
    /\ last_op.op = "update" =>
         \A bound \in {30, 60, 120} :
           (elapsed_seconds(batch_pre) < bound
              /\ elapsed_seconds(batch) >= bound) =>
             process(batch) # process(batch_pre)

\* an update that ends at exactly 60 s leaves the batch in DRYING
C34_Witness ==
  /\ fresh_run
  /\ last_op.op = "update"
  /\ elapsed_seconds(batch_pre) = 30
  /\ process(batch_pre) = "ROLLING"
  /\ elapsed_seconds(batch) = 60
  /\ process(batch) = "DRYING"

(***************************************************************************)
(* C35: in every state of a TeaBatch reachable by update, set_model and    *)
(* reset, quality_status() is the GOOD/OK/BAD classification of the value  *)
(* quality_score() returns in that same state.                             *)
(***************************************************************************)
C35_StatusMatchesScore ==
  quality_status(batch) = StatusOf(quality_score(batch))

(***************************************************************************)
(* C36: in every reachable state of tea_gui::Simulator, is_running() true  *)
(* implies that at least one batch is not FINISHED; the controller is      *)
(* never left running with all batches finished.                           *)
(***************************************************************************)
C36_RunningHasActiveBatch ==
  is_running(gui) =>
    \E i \in 1..Len(gui.batches_) : process(gui.batches_[i]) # "FINISHED"

\* a controller of two batches still running in the last stage
C36_Witness ==
  /\ is_running(gui)
  /\ gui_op.op = "update"
  /\ batch_count(gui) = 2
  /\ \A i \in 1..Len(gui.batches_) : process(gui.batches_[i]) = "DRYING"

\* what the claim compares between batches: stage, elapsed seconds, pending
\* remainder, profile (name and coefficients in use) and state vector
Lockstep(b) ==
  <<process(b), elapsed_seconds(b), b.stage_elapsed_seconds_,
    b.pending_seconds_, b.model_, b.model_params_,
    b.current_process_handler_, StateVector(b)>>

(***************************************************************************)
(* C37: all batches held by a tea_gui::Simulator are in lockstep: after    *)
(* any sequence of start, pause, reset, update, set_model and              *)
(* set_batch_count calls, every batch has the same stage, elapsed seconds, *)
(* pending remainder, profile and state vector as the primary batch, so    *)
(* the primary batch is FINISHED exactly when every batch is.              *)
(***************************************************************************)
C37_BatchesInLockstep ==
  /\ \A i \in 1..Len(gui.batches_) :
       Lockstep(gui.batches_[i]) = Lockstep(GuiSimulator_batch(gui))
  /\ process(GuiSimulator_batch(gui)) = "FINISHED" <=> ~AnyActive(gui)

\* two batches under another profile, paused or running in the second stage
\* with half a second pending
C37_Witness ==
  /\ batch_count(gui) = 2
  /\ GuiSimulator_model(gui) # "DEFAULT"
  /\ process(gui.batches_[2]) = "ROLLING"
  /\ gui.batches_[2].pending_seconds_ # Zero
  /\ gui.batches_[2].leaf_ = gui.batches_[1].leaf_

\* the indices batch_at is asked for: below 0, in range, and past the end
Indices == (0 - 2)..(MaxBatches + 2)

(***************************************************************************)
(* C39: a tea_gui::Simulator always holds at least one batch and           *)
(* batch_count() equals the number of batches held; set_batch_count(n)     *)
(* with n < 1 yields one batch, set_batch_count while running changes      *)
(* nothing, a successful set_batch_count leaves every batch in the initial *)
(* state, and batch_at(i) returns an existing batch for every integer i    *)
(* (indices below 0 give the first batch, indices >= batch_count() the     *)
(* last).                                                                  *)
(***************************************************************************)
C39_BatchCount ==
  /\ Len(gui.batches_) >= 1
  /\ batch_count(gui) = Len(gui.batches_)
  /\ gui_op.op = "set_batch_count" =>
       IF is_running(gui_pre)
       THEN gui = gui_pre
       ELSE /\ batch_count(gui) = (IF gui_op.arg < 1 THEN 1 ELSE gui_op.arg)
            /\ \A i \in 1..Len(gui.batches_) :
                 InitialBatch(gui.batches_[i], GuiSimulator_model(gui_pre))
            /\ GuiSimulator_model(gui) = GuiSimulator_model(gui_pre)
            /\ ~is_running(gui)
  /\ \A i \in Indices :
       /\ \E j \in 1..Len(gui.batches_) : batch_at(gui, i) = gui.batches_[j]
       /\ i < 0 => batch_at(gui, i) = gui.batches_[1]
       /\ i >= batch_count(gui) =>
            batch_at(gui, i) = gui.batches_[Len(gui.batches_)]
       /\ (0 <= i /\ i < batch_count(gui)) =>
            batch_at(gui, i) = gui.batches_[i + 1]

\* set_batch_count(0) on a stopped controller of two batches in mid-run
C39_Witness ==
  /\ gui_op.op = "set_batch_count"
  /\ gui_op.arg = 0
  /\ ~is_running(gui_pre)
  /\ batch_count(gui_pre) = 2
  /\ elapsed_seconds(GuiSimulator_batch(gui_pre)) > 0
  /\ batch_count(gui) = 1

\* the smallest number of steps of d seconds that cover n seconds
Ceil(n, d) == (n + d - 1) \div d

\* the step calls in the log that applied the rule of a stage
StepsOf(rule) ==
  Cardinality({i \in 1..Len(sim_log) : sim_log[i].applied[1].rule = rule})

(***************************************************************************)
(* C38: on a fresh tea::Simulator with dt > 0 and positive stage           *)
(* durations, the number of step calls that return true before the first   *)
(* false is ceil(steaming/dt) + ceil(rolling/dt) + ceil(drying/dt); the    *)
(* last, shortened step of a stage is never merged with the first step of  *)
(* the next stage, so each stage takes its own ceil(duration/dt) steps.    *)
(***************************************************************************)
C38_StepCount ==
  LET c == sim.config_
      dt == c.dt_seconds
      total == Ceil(c.steaming_seconds, dt) + Ceil(c.rolling_seconds, dt)
                 + Ceil(c.drying_seconds, dt)
  IN  /\ Len(sim_log) <= total
      /\ ReturnedFalse =>
           /\ Len(sim_log) = total
           /\ StepsOf("STEAMING") = Ceil(c.steaming_seconds, dt)
           /\ StepsOf("ROLLING") = Ceil(c.rolling_seconds, dt)
           /\ StepsOf("DRYING") = Ceil(c.drying_seconds, dt)
      /\ \A i \in 1..Len(sim_log) : Len(sim_log[i].applied) = 1

\* a completed run in which the steaming stage ended with a shortened step
C38_Witness ==
  /\ ReturnedFalse
  /\ sim.config_.dt_seconds = 3
  /\ sim.config_.steaming_seconds = 4
  /\ sim.config_.rolling_seconds = 2
  /\ sim.config_.drying_seconds = 4
  /\ Len(sim_log) = 5
  /\ sim_log[2].applied[1].seconds = 1
  /\ sim_log[3].applied[1].rule = "ROLLING"

=============================================================================
